---- MODULE Spec2Model ----
(***************************************************************************)
(* ScholarHub (calculator-with-ai/app.js): the arithmetic expression       *)
(* evaluator (tokenize, evaluate), as a function and run statement by      *)
(* statement; the diagram block graph (resolveDiagramValue,                *)
(* computeDiagramBlock, getDiagramResults and the handlers that mutate     *)
(* diagramBlocks); the keypad (handleInput); the sampling of a graph       *)
(* series (evaluateWithX); the notepad (renderNotepad); the chat widget    *)
(* (ai-widget.js sendMessage); the account system (part_002 signUp,        *)
(* signIn, signOut, each await a point where other handlers run); the      *)
(* data service (data-service.js saveContent, debouncedSaveContent).       *)
(*                                                                         *)
(* JavaScript strings are sequences of one-character strings.  JavaScript  *)
(* numbers are exact rationals, sign and magnitude n / d over naturals of  *)
(* any size; every value the program stores is a decimal of at most ten    *)
(* places, and for the literals used here IEEE doubles followed by the     *)
(* code's rounding to ten places give the same decimal.                    *)
(***************************************************************************)
EXTENDS Integers, Sequences, FiniteSets, TLC

VARIABLES
  expr,            \* the string handed to evaluate
  outcome,         \* what evaluate returned for expr (Pending before the call)
  diagramBlocks,   \* app.js:559  the ordered block list
  diagramBlockId,  \* app.js:558  the last id handed out
  diagramResults,  \* app.js:607  the results of the last renderDiagramBlocks
  shown,           \* the text of each .diagram-block-result element, in DOM order
  edits,           \* number of slot edits so far (bounds the exploration)
  display,         \* app.js:34
  displayText,     \* displayEl.textContent
  pendingOp,       \* app.js:35
  pendingValue,    \* app.js:36
  lastKey,         \* the value of the last handleInput call ("" before the first)
  prevDisplay,     \* display as it was when that call began
  keys,            \* number of handleInput calls so far (bounds the exploration)
  graphExpr,       \* the expr of a graph series
  graphX,          \* the sample value x of drawGraph's loop
  graphY,          \* what evaluateWithX returned for them (Pending before the call)
  notepadInput,    \* notepadInput.value
  notepadOutput,   \* notepadOutput.textContent
  frame,           \* the locals of one call of evaluate, run statement by statement
  inputValue,      \* ai-widget.js: inputEl.value
  sendDisabled,    \* ai-widget.js:225  sendBtn.disabled
  messages,        \* the children of messagesEl, in DOM order
  inFlight,        \* the thinking elements whose fetch has not settled
  sends,           \* number of requests sent so far (bounds the exploration)
  users,           \* part_002:25  the parsed item USERS_KEY of localStorage
  session,         \* part_002:38  the email of the item SESSION_KEY (<<>> when absent)
  authCalls,       \* the signUp and signIn calls waiting at their await
  authReturn,      \* what the last signUp or signIn that returned gave back
  authCount,       \* number of auth calls so far (bounds the exploration)
  storage,         \* the content items of localStorage, by storage key
  debounceTimers,  \* data-service.js:5
  timers,          \* the timers of the page that are set and have not fired
  timerId,         \* the last timer id handed out by setTimeout
  burst,           \* per content key, the debouncedSaveContent calls since a timer
                   \* of the key last fired: their number, the value of the last,
                   \* and the values saved by timers since that last call
  lastSave,        \* the last saveContent that ran: what it was given, where it wrote
  dataCalls        \* number of data-service calls so far (bounds the exploration)

evalVars == <<expr, outcome>>
diagramVars == <<diagramBlocks, diagramBlockId, diagramResults, shown, edits>>
calcVars == <<display, displayText, pendingOp, pendingValue, lastKey, prevDisplay, keys>>
graphVars == <<graphExpr, graphX, graphY>>
noteVars == <<notepadInput, notepadOutput>>

chatVars == <<inputValue, sendDisabled, messages, inFlight, sends>>
authVars == <<users, session, authCalls, authReturn, authCount>>
dataVars == <<storage, debounceTimers, timers, timerId, burst, lastSave, dataCalls>>
pageVars == <<chatVars, authVars, dataVars>>

vars == <<evalVars, diagramVars, calcVars, graphVars, noteVars, frame, pageVars>>

(***************************************************************************)
(* Bounds                                                                  *)
(***************************************************************************)
MaxRawLen == 4
MaxNums == 3
MaxBlocks == 3
MaxId == 3
MaxEdits == 2
MaxKeys == 4
MaxTerms == 2
MaxNoteLen == 4
MaxStepLen == 3
MaxStepNums == 3

(***************************************************************************)
(* Strings                                                                 *)
(***************************************************************************)
DigitChars == {"0", "1", "2", "3", "4", "5", "6", "7", "8", "9"}
OpChars == {"+", "-", "*", "/"}

DigitVal(c) ==
  CASE c = "0" -> 0 [] c = "1" -> 1 [] c = "2" -> 2 [] c = "3" -> 3
    [] c = "4" -> 4 [] c = "5" -> 5 [] c = "6" -> 6 [] c = "7" -> 7
    [] c = "8" -> 8 [] c = "9" -> 9

DigitChar(k) ==
  CASE k = 0 -> "0" [] k = 1 -> "1" [] k = 2 -> "2" [] k = 3 -> "3"
    [] k = 4 -> "4" [] k = 5 -> "5" [] k = 6 -> "6" [] k = 7 -> "7"
    [] k = 8 -> "8" [] k = 9 -> "9"

ErrorText == <<"E", "r", "r", "o", "r">>
NaNText == <<"N", "a", "N">>

\* String.prototype.trim for the one white-space character of the model, " ".
RECURSIVE TrimLeft(_)
TrimLeft(s) == IF s # <<>> /\ Head(s) = " " THEN TrimLeft(Tail(s)) ELSE s

RECURSIVE TrimRight(_)
TrimRight(s) ==
  IF s # <<>> /\ s[Len(s)] = " " THEN TrimRight(SubSeq(s, 1, Len(s) - 1)) ELSE s

Trim(s) == TrimRight(TrimLeft(s))

\* str.replace(/[^...]/g, ''): keep the characters of `keep`, drop the rest.
Filter(s, keep) == SelectSeq(s, LAMBDA c : c \in keep)

(***************************************************************************)
(* Natural numbers of any size: little-endian sequences of limbs in base   *)
(* LimbBase, without leading zero limbs (<<>> is 0).  TLC's integers are   *)
(* 32 bits wide, the doubles of the program hold ten-place decimals.       *)
(* An operand is bound as a value (x \in {a}): it is computed once however  *)
(* often the body reads it.                                                *)
(***************************************************************************)
LimbBase == 100 * 100
LimbDigits == 2 + 2

RECURSIVE NNorm(_)
NNorm(a) == IF a # <<>> /\ a[Len(a)] = 0 THEN NNorm(SubSeq(a, 1, Len(a) - 1)) ELSE a

RECURSIVE NFromInt(_)
NFromInt(n) == IF n = 0 THEN <<>> ELSE <<n % LimbBase>> \o NFromInt(n \div LimbBase)

Limb(a, i) == IF i <= Len(a) THEN a[i] ELSE 0

RECURSIVE NAddFrom(_, _, _, _)
NAddFrom(a, b, i, carry) ==
  IF i > Len(a) /\ i > Len(b)
    THEN IF carry = 0 THEN <<>> ELSE <<carry>>
    ELSE LET t == Limb(a, i) + Limb(b, i) + carry
         IN  <<t % LimbBase>> \o NAddFrom(a, b, i + 1, t \div LimbBase)

NAdd(a, b) == CHOOSE res \in {NAddFrom(x, y, 1, 0) : x \in {a}, y \in {b}} : TRUE

\* a - b for a >= b
RECURSIVE NSubFrom(_, _, _, _)
NSubFrom(a, b, i, borrow) ==
  IF i > Len(a) THEN <<>>
  ELSE LET t == Limb(a, i) - Limb(b, i) - borrow
       IN  IF t < 0 THEN <<t + LimbBase>> \o NSubFrom(a, b, i + 1, 1)
           ELSE <<t>> \o NSubFrom(a, b, i + 1, 0)

NSub(a, b) ==
  CHOOSE res \in {NNorm(z) : z \in {NSubFrom(x, y, 1, 0) : x \in {a}, y \in {b}}} : TRUE

\* -1, 0, 1 as a < b, a = b, a > b
RECURSIVE NCmpFrom(_, _, _)
NCmpFrom(a, b, i) ==
  IF i = 0 THEN 0
  ELSE IF a[i] < b[i] THEN -1
  ELSE IF a[i] > b[i] THEN 1
  ELSE NCmpFrom(a, b, i - 1)

NCmp(a, b) ==
  CHOOSE res \in
    {IF Len(x) < Len(y) THEN -1
     ELSE IF Len(x) > Len(y) THEN 1
     ELSE NCmpFrom(x, y, Len(x)) : x \in {a}, y \in {b}} : TRUE

\* a * m for 0 <= m < LimbBase
RECURSIVE NMulSmallFrom(_, _, _, _)
NMulSmallFrom(a, m, i, carry) ==
  IF i > Len(a) THEN IF carry = 0 THEN <<>> ELSE <<carry>>
  ELSE LET t == a[i] * m + carry
       IN  <<t % LimbBase>> \o NMulSmallFrom(a, m, i + 1, t \div LimbBase)

NMulSmall(a, m) ==
  IF m = 0 THEN <<>> ELSE CHOOSE res \in {NMulSmallFrom(x, m, 1, 0) : x \in {a}} : TRUE

\* a * LimbBase
NShift(a) == IF a = <<>> THEN <<>> ELSE <<0>> \o a

RECURSIVE NMul(_, _)
NMul(a, b) ==
  CHOOSE res \in
    {IF y = <<>> \/ x = <<>> THEN <<>>
     ELSE NAdd(NMulSmall(x, Head(y)), NShift(NMul(x, Tail(y)))) :
       x \in {a}, y \in {b}} : TRUE

\* The largest q in lo..hi with q * b <= r (lo * b <= r is given).
RECURSIVE QuotLimb(_, _, _, _)
QuotLimb(r, b, lo, hi) ==
  IF lo = hi THEN lo
  ELSE LET mid == (lo + hi + 1) \div 2
       IN  IF NCmp(NMulSmall(b, mid), r) <= 0
             THEN QuotLimb(r, b, mid, hi)
             ELSE QuotLimb(r, b, lo, mid - 1)

\* Long division, from the most significant limb of a down: quot is built
\* little-endian, rem is the running remainder.
RECURSIVE NDivFrom(_, _, _, _, _)
NDivFrom(a, b, i, quot, rem) ==
  IF i = 0 THEN [quot |-> NNorm(quot), rem |-> rem]
  ELSE CHOOSE res \in
         {NDivFrom(a, b, i - 1, <<q>> \o quot, NSub(r, NMulSmall(b, q))) :
            <<r, q>> \in {<<x, QuotLimb(x, b, 0, LimbBase - 1)>> :
                            x \in {NNorm(<<a[i]>> \o rem)}}} : TRUE

\* The same by a single limb m > 0, the remainder kept as an integer.
RECURSIVE NDivSmallFrom(_, _, _, _, _)
NDivSmallFrom(a, m, i, quot, rem) ==
  IF i = 0 THEN [quot |-> NNorm(quot), rem |-> NFromInt(rem)]
  ELSE LET t == rem * LimbBase + a[i]
       IN  NDivSmallFrom(a, m, i - 1, <<t \div m>> \o quot, t % m)

\* floor(a / b) and a mod b, for b # 0
NDivMod(a, b) ==
  CHOOSE res \in
    {IF Len(y) = 1 THEN NDivSmallFrom(x, y[1], Len(x), <<>>, 0)
     ELSE NDivFrom(x, y, Len(x), <<>>, <<>>) : x \in {a}, y \in {b}} : TRUE

RECURSIVE NPow10(_)
NPow10(k) == IF k = 0 THEN <<1>> ELSE NMulSmall(NPow10(k - 1), 10)

NOne == <<1>>
NTen == <<10>>

(***************************************************************************)
(* Numbers: exact rationals, sign and magnitude n / d                      *)
(***************************************************************************)
Rat(neg, n, d) == CHOOSE res \in {[neg |-> neg /\ x # <<>>, n |-> x, d |-> d] : x \in {n}} : TRUE

Q(k) == Rat(k < 0, NFromInt(IF k < 0 THEN -k ELSE k), NOne)
QNeg(a) == Rat(~a.neg, a.n, a.d)
QIsZero(a) == a.n = <<>>

\* a + b: magnitudes over the common denominator, signs by comparison.
QAdd(a, b) ==
  LET x == NMul(a.n, b.d)
      y == NMul(b.n, a.d)
      d == NMul(a.d, b.d)
  IN  IF a.neg = b.neg THEN Rat(a.neg, NAdd(x, y), d)
      ELSE IF NCmp(x, y) >= 0 THEN Rat(a.neg, NSub(x, y), d)
      ELSE Rat(b.neg, NSub(y, x), d)

QSub(a, b) == QAdd(a, QNeg(b))
QMul(a, b) == Rat(a.neg # b.neg, NMul(a.n, b.n), NMul(a.d, b.d))
\* a / b for b # 0
QDiv(a, b) == Rat(a.neg # b.neg, NMul(a.n, b.d), NMul(a.d, b.n))

\* An integer m over 10^k in the unique form whose k is least.
RECURSIVE Decimal(_, _, _)
Decimal(neg, m, k) ==
  CHOOSE res \in
    {IF k = 0 \/ v = <<>> THEN Rat(neg, v, NOne)
     ELSE IF v[1] % 10 = 0 THEN Decimal(neg, NDivMod(v, NTen).quot, k - 1)
     ELSE Rat(neg, v, NPow10(k)) : v \in {m}} : TRUE

RoundPlaces == 10

\* Math.round(y) is floor(y + 1/2).  For x = n/d >= 0 and the scale p:
\* floor((2 n p + d) / 2d); for x < 0: -ceil((2 n p - d) / 2d).
RoundedScaled(q, p) ==
  LET n2 == NMulSmall(NMul(q.n, p), 2)
      d2 == NMulSmall(q.d, 2)
  IN  IF ~q.neg THEN NDivMod(NAdd(n2, q.d), d2).quot
      ELSE IF NCmp(n2, q.d) < 0 THEN <<>>
      ELSE NDivMod(NSub(NAdd(n2, d2), NAdd(q.d, NOne)), d2).quot

\* Math.round(x * 1e10) / 1e10
RoundScale == NPow10(RoundPlaces)

Round10(q) == Decimal(q.neg, RoundedScaled(q, RoundScale), RoundPlaces)

\* k for d = 10^k
RECURSIVE PlacesOf(_)
PlacesOf(d) == IF d = NOne THEN 0 ELSE 1 + PlacesOf(NDivMod(d, NTen).quot)

\* A quotient of a decimal literal by a power of ten (value / 100), in the
\* form Decimal gives.
AsDecimal(q) == Decimal(q.neg, q.n, PlacesOf(q.d))

(***************************************************************************)
(* JavaScript values: null, a number, NaN, a string                        *)
(***************************************************************************)
JsNull == [t |-> "null", q |-> Q(0), s |-> <<>>]
JsNaN == [t |-> "nan", q |-> Q(0), s |-> <<>>]
JsNum(q) == [t |-> "num", q |-> q, s |-> <<>>]
JsStr(s) == [t |-> "str", q |-> Q(0), s |-> s]
ErrorMarker == JsStr(ErrorText)
NoResult == JsNull
Pending == JsStr(<<"p", "e", "n", "d", "i", "n", "g">>)

IsNumber(v) == v.t = "num"

\* parseFloat: an optional sign, digits, an optional point and digits; the
\* longest such prefix is read and the rest ignored; NaN without any digit.
RECURSIVE LeadingDigits(_)
LeadingDigits(s) ==
  IF s # <<>> /\ Head(s) \in DigitChars
    THEN <<DigitVal(Head(s))>> \o LeadingDigits(Tail(s))
    ELSE <<>>

RECURSIVE DigitsToInt(_, _)
DigitsToInt(ds, acc) ==
  IF ds = <<>> THEN acc ELSE DigitsToInt(Tail(ds), acc * 10 + Head(ds))

RECURSIVE DigitsToNat(_, _)
DigitsToNat(ds, acc) ==
  IF ds = <<>> THEN acc
  ELSE DigitsToNat(Tail(ds), NAdd(NMulSmall(acc, 10), NFromInt(Head(ds))))

\* The digits after a point at the head of rest; none without the point.
FractionDigits(rest) ==
  IF rest # <<>> /\ Head(rest) = "." THEN LeadingDigits(Tail(rest)) ELSE <<>>

\* The integer that signed digits at the head of es denote.
SignedDigits(es) ==
  LET edigits == LeadingDigits(IF es # <<>> /\ Head(es) \in {"-", "+"} THEN Tail(es) ELSE es)
  IN  IF es # <<>> /\ Head(es) = "-" THEN 0 - DigitsToInt(edigits, 0)
      ELSE DigitsToInt(edigits, 0)

\* What follows the mantissa: an exponent part e[+-]digits is read too.
Exponent(after) ==
  SignedDigits(IF after # <<>> /\ Head(after) \in {"e", "E"} THEN Tail(after) ELSE <<>>)

\* m / 10^places
Scaled(neg, m, places) ==
  IF places >= 0 THEN Decimal(neg, m, places)
  ELSE Rat(neg, NMul(m, NPow10(0 - places)), NOne)

\* The number read with the integer digits ipart, the fraction digits fpart
\* and rest, the text after the integer digits.
ParseDigits(neg, ipart, fpart, rest) ==
  LET after == IF rest # <<>> /\ Head(rest) = "."
                 THEN SubSeq(rest, Len(fpart) + 2, Len(rest)) ELSE rest
  IN  IF ipart = <<>> /\ fpart = <<>> THEN JsNaN
      ELSE JsNum(Scaled(neg, DigitsToNat(ipart \o fpart, <<>>), Len(fpart) - Exponent(after)))

ParseRest(neg, ipart, rest) == ParseDigits(neg, ipart, FractionDigits(rest), rest)

ParseMantissa(neg, body, ipart) ==
  ParseRest(neg, ipart, SubSeq(body, Len(ipart) + 1, Len(body)))

ParseUnsigned(neg, body) == ParseMantissa(neg, body, LeadingDigits(body))

ParseFloat(s) ==
  ParseUnsigned(s # <<>> /\ Head(s) = "-",
                IF s # <<>> /\ Head(s) \in {"-", "+"} THEN Tail(s) ELSE s)

(***************************************************************************)
(* tokenize (app.js:229-256)                                               *)
(***************************************************************************)
OpToken(c) == [type |-> "op", op |-> c, value |-> Q(0), isPercent |-> FALSE]
NumToken(q, p) == [type |-> "num", op |-> "", value |-> q, isPercent |-> p]

\* The inner while loop: the index after the run of digits and '.' from i.
RECURSIVE NumRunEnd(_, _)
NumRunEnd(str, i) ==
  IF i <= Len(str) /\ (str[i] \in DigitChars \/ str[i] = ".")
    THEN NumRunEnd(str, i + 1)
    ELSE i

\* The outer while loop from index i with `tokens` pushed so far.
RECURSIVE TokenizeFrom(_, _, _)
TokenizeFrom(str, i, tokens) ==
  IF i > Len(str) THEN [ok |-> TRUE, tokens |-> tokens]
  ELSE IF str[i] \in OpChars
    THEN TokenizeFrom(str, i + 1, Append(tokens, OpToken(str[i])))
  ELSE IF str[i] \in DigitChars \/ str[i] = "."
    THEN LET j == NumRunEnd(str, i)
             n == ParseFloat(SubSeq(str, i, j - 1))
             isPercent == j <= Len(str) /\ str[j] = "%"
         IN  IF n.t = "nan" THEN [ok |-> FALSE, tokens |-> <<>>]
             ELSE TokenizeFrom(str, IF isPercent THEN j + 1 ELSE j,
                               Append(tokens, NumToken(n.q, isPercent)))
  ELSE TokenizeFrom(str, i + 1, tokens)

tokenize(str) == TokenizeFrom(str, 1, <<>>)

(***************************************************************************)
(* evaluate (app.js:258-301)                                               *)
(***************************************************************************)
Operand(q, p) == [value |-> q, isPercent |-> p]

PercentAdjust(o) == IF o.isPercent THEN QDiv(o.value, Q(100)) ELSE o.value

MulDivOps == {"*", "/"}
AddSubOps == {"+", "-"}

\* ops.findIndex(o => priority.includes(o)), 1-based; 0 when there is none.
RECURSIVE FindFrom(_, _, _)
FindFrom(ops, priority, i) ==
  IF i > Len(ops) THEN 0
  ELSE IF ops[i] \in priority THEN i
  ELSE FindFrom(ops, priority, i + 1)

\* Mutant: the rightmost operator of the priority class is taken first.
RECURSIVE FindDownFrom(_, _, _)
FindDownFrom(ops, priority, i) ==
  IF i = 0 THEN 0
  ELSE IF ops[i] \in priority THEN i
  ELSE FindDownFrom(ops, priority, i - 1)

FindIndexLast(ops, priority) == FindDownFrom(ops, priority, Len(ops))

FindIndex(ops, priority) == FindFrom(ops, priority, 1)

\* Mutant: a percent right operand of + or - is added as b/100 itself.
CombinePercentAlone(a, op, b) ==
  LET aVal == PercentAdjust(a)
      bVal == PercentAdjust(b)
  IN  CASE op = "*" -> [err |-> FALSE, value |-> QMul(aVal, bVal)]
        [] op = "/" -> IF QIsZero(bVal) THEN [err |-> TRUE, value |-> Q(0)]
                       ELSE [err |-> FALSE, value |-> QDiv(aVal, bVal)]
        [] op = "+" -> [err |-> FALSE, value |-> QAdd(aVal, bVal)]
        [] op = "-" -> [err |-> FALSE, value |-> QSub(aVal, bVal)]

\* Mutant: the zero test looks at the left operand of the division.
CombineChecksLeft(a, op, b) ==
  LET aVal == PercentAdjust(a)
      bVal == PercentAdjust(b)
      right == IF b.isPercent THEN QMul(aVal, QDiv(b.value, Q(100))) ELSE bVal
  IN  CASE op = "*" -> [err |-> FALSE, value |-> QMul(aVal, bVal)]
        [] op = "/" -> IF QIsZero(aVal) THEN [err |-> TRUE, value |-> Q(0)]
                       ELSE IF QIsZero(bVal) THEN [err |-> FALSE, value |-> aVal]
                       ELSE [err |-> FALSE, value |-> QDiv(aVal, bVal)]
        [] op = "+" -> [err |-> FALSE, value |-> QAdd(aVal, right)]
        [] op = "-" -> [err |-> FALSE, value |-> QSub(aVal, right)]

\* Lines 280-293: the value of a op b; err when dividing by zero.
Combine(a, op, b) ==
  LET aVal == PercentAdjust(a)
      bVal == PercentAdjust(b)
      right == IF b.isPercent THEN QMul(aVal, QDiv(b.value, Q(100))) ELSE bVal
  IN  CASE op = "*" -> [err |-> FALSE, value |-> QMul(aVal, bVal)]
        [] op = "/" -> IF QIsZero(bVal) THEN [err |-> TRUE, value |-> Q(0)]
                       ELSE [err |-> FALSE, value |-> QDiv(aVal, bVal)]
        [] op = "+" -> [err |-> FALSE, value |-> QAdd(aVal, right)]
        [] op = "-" -> [err |-> FALSE, value |-> QSub(aVal, right)]

\* nums.splice(idx, 2, x) and ops.splice(idx, 1)
Splice2(nums, idx, x) ==
  SubSeq(nums, 1, idx - 1) \o <<x>> \o SubSeq(nums, idx + 2, Len(nums))
Splice1(ops, idx) == SubSeq(ops, 1, idx - 1) \o SubSeq(ops, idx + 1, Len(ops))

\* The while loop of one pass (lines 275-296).
RECURSIVE ReducePass(_, _, _)
ReducePass(nums, ops, priority) ==
  LET idx == FindIndex(ops, priority) IN
  IF idx = 0 THEN [err |-> FALSE, nums |-> nums, ops |-> ops]
  ELSE LET c == Combine(nums[idx], ops[idx], nums[idx + 1])
       IN  IF c.err THEN [err |-> TRUE, nums |-> nums, ops |-> ops]
           ELSE ReducePass(Splice2(nums, idx, Operand(c.value, FALSE)),
                           Splice1(ops, idx), priority)

FirstPriority == MulDivOps
SecondPriority == AddSubOps

\* The for loop over the two passes (lines 273-297).
Reduce(nums, ops) ==
  LET p1 == ReducePass(nums, ops, FirstPriority)
  IN  IF p1.err THEN p1 ELSE ReducePass(p1.nums, p1.ops, SecondPriority)

NumsOf(tokens) ==
  LET ts == SelectSeq(tokens, LAMBDA t : t.type = "num")
  IN  [i \in 1..Len(ts) |-> Operand(ts[i].value, ts[i].isPercent)]

OpsOf(tokens) ==
  LET ts == SelectSeq(tokens, LAMBDA t : t.type = "op")
  IN  [i \in 1..Len(ts) |-> ts[i].op]

\* Mutant: only too many operators are refused.
CountMismatchTooMany(ops, nums) == Len(ops) > Len(nums) - 1

\* Line 271: ops.length !== nums.length - 1
CountMismatch(ops, nums) == Len(ops) # Len(nums) - 1

\* Lines 298-300: what the two passes leave is rounded and returned.
\* Rationals are finite, so line 299 (Infinity, NaN) never applies to the
\* bounded inputs: without a division by zero no double overflows here.
ReturnOf(r) ==
  IF r.err THEN ErrorMarker ELSE JsNum(Round10(PercentAdjust(r.nums[1])))

\* Lines 260-300 on the tokens tokenize returned.
EvaluateTokens(tk) ==
  IF ~tk.ok \/ Len(tk.tokens) = 0 \/ tk.tokens[1].type # "num" THEN JsNull
  ELSE IF Len(tk.tokens) = 1
    THEN JsNum(AsDecimal(PercentAdjust(Operand(tk.tokens[1].value, tk.tokens[1].isPercent))))
  ELSE IF CountMismatch(OpsOf(tk.tokens), NumsOf(tk.tokens)) THEN JsNull
  ELSE ReturnOf(Reduce(NumsOf(tk.tokens), OpsOf(tk.tokens)))

evaluate(str) == EvaluateTokens(tokenize(str))

(***************************************************************************)
(* Number to string and the arithmetic of JavaScript values                *)
(***************************************************************************)
\* The k low decimal digits of a limb, most significant first.
RECURSIVE LimbChars(_, _)
LimbChars(x, k) ==
  IF k = 0 THEN <<>> ELSE Append(LimbChars(x \div 10, k - 1), DigitChar(x % 10))

RECURSIVE StripLeadingZeros(_)
StripLeadingZeros(cs) ==
  IF cs # <<>> /\ Head(cs) = "0" THEN StripLeadingZeros(Tail(cs)) ELSE cs

RECURSIVE AllLimbChars(_)
AllLimbChars(n) ==
  IF n = <<>> THEN <<>> ELSE AllLimbChars(Tail(n)) \o LimbChars(Head(n), LimbDigits)

\* The decimal digits of a natural number, none for 0.
NatChars(n) == StripLeadingZeros(AllLimbChars(n))

RECURSIVE Zeros(_)
Zeros(k) == IF k <= 0 THEN <<>> ELSE <<"0">> \o Zeros(k - 1)

\* String(x) for a decimal x with |x| < 1e21: with digits d1..dn and
\* x = 0.d1..dn * 10^point, plain notation when point > -6, otherwise
\* d1.d2..dn e-(1 - point).
DigitsToString(neg, cs, k) ==
  LET point == Len(cs) - k
      padded == Zeros(k + 1 - Len(cs)) \o cs
      cut == Len(padded) - k
      sign == IF neg THEN <<"-">> ELSE <<>>
  IN  IF cs # <<>> /\ point <= 0 - 6
        THEN sign \o <<Head(cs)>>
               \o (IF Len(cs) = 1 THEN <<>> ELSE <<".">> \o Tail(cs))
               \o <<"e", "-">> \o NatChars(NFromInt(1 - point))
        ELSE sign \o SubSeq(padded, 1, cut)
               \o (IF k = 0 THEN <<>> ELSE <<".">> \o SubSeq(padded, cut + 1, Len(padded)))

NumberToString(q) == DigitsToString(q.neg, NatChars(q.n), PlacesOf(q.d))

JsToString(v) ==
  CASE v.t = "num" -> NumberToString(v.q)
    [] v.t = "nan" -> NaNText
    [] v.t = "str" -> v.s
    [] v.t = "null" -> <<"n", "u", "l", "l">>

\* x * y, x - y, x / y convert both operands to numbers; a string that is
\* not a numeral (every string stored holds the letters of 'Error' or
\* 'NaN') converts to NaN.
BothNumbers(l, r) == l.t = "num" /\ r.t = "num"
JsMul(l, r) == IF BothNumbers(l, r) THEN JsNum(QMul(l.q, r.q)) ELSE JsNaN
JsSub(l, r) == IF BothNumbers(l, r) THEN JsNum(QSub(l.q, r.q)) ELSE JsNaN
JsDiv(l, r) == IF BothNumbers(l, r) THEN JsNum(QDiv(l.q, r.q)) ELSE JsNaN
\* x + y concatenates when either operand is a string.
JsAdd(l, r) ==
  IF l.t = "str" \/ r.t = "str" THEN JsStr(JsToString(l) \o JsToString(r))
  ELSE IF BothNumbers(l, r) THEN JsNum(QAdd(l.q, r.q))
  ELSE JsNaN

\* Math.round(value * 1e10) / 1e10 of a value whose typeof is 'number'.
JsRound10(v) == IF v.t = "num" THEN JsNum(Round10(v.q)) ELSE JsNaN

(***************************************************************************)
(* The block graph (app.js:558-602)                                        *)
(***************************************************************************)
Block(id, left, op, right) == [id |-> id, left |-> left, op |-> op, right |-> right]

AllDigits(s) == \A i \in 1..Len(s) : s[i] \in DigitChars

\* t.match(/^#(\d+)$/)
IsRef(t) == Len(t) >= 2 /\ Head(t) = "#" /\ AllDigits(Tail(t))

\* parseInt(refMatch[1], 10)
RefNumber(t) == DigitsToInt(LeadingDigits(Tail(t)), 0)

NumberChars == DigitChars \cup {".", "-", "%"}

\* results[idx] !== undefined && results[idx] !== null
Defined(results, idx) ==
  idx >= 0 /\ idx + 1 <= Len(results) /\ results[idx + 1] # JsNull

resolveDiagramValue(str, results) ==
  IF str = <<>> THEN JsNull
  ELSE LET t == Trim(str) IN
    IF IsRef(t)
      THEN LET idx == RefNumber(t) - 1
           IN  IF Defined(results, idx) THEN results[idx + 1] ELSE JsNull
    ELSE LET num == ParseFloat(Filter(t, NumberChars))
         IN  IF num.t = "nan" THEN JsNull
             ELSE IF t[Len(t)] = "%" THEN JsNum(AsDecimal(QDiv(num.q, Q(100))))
             ELSE num

DefaultOp == <<"+">>

\* Mutant: a blank operator is left blank.
EffectiveOpNoDefault(op) == Trim(op)

\* (block.op || '+').trim()
EffectiveOp(op) == Trim(IF op = <<>> THEN DefaultOp ELSE op)

\* Mutant: an operand that does not resolve counts as 0.
computeDiagramBlockNullAsZero(block, results) ==
  LET l == resolveDiagramValue(block.left, results)
      r == resolveDiagramValue(block.right, results)
      left == IF l = JsNull THEN JsNum(Q(0)) ELSE l
      right == IF r = JsNull THEN JsNum(Q(0)) ELSE r
      op == EffectiveOp(block.op)
  IN  IF op = <<"*">> THEN JsMul(left, right)
      ELSE IF op = <<"/">>
        THEN IF right.t = "num" /\ QIsZero(right.q) THEN ErrorMarker
             ELSE JsDiv(left, right)
      ELSE IF op = <<"+">> THEN JsAdd(left, right)
      ELSE IF op = <<"-">> THEN JsSub(left, right)
      ELSE JsNull

computeDiagramBlock(block, results) ==
  LET left == resolveDiagramValue(block.left, results)
      right == resolveDiagramValue(block.right, results)
      op == EffectiveOp(block.op)
  IN  IF left = JsNull \/ right = JsNull THEN JsNull
      ELSE IF op = <<"*">> THEN JsMul(left, right)
      ELSE IF op = <<"/">>
        THEN IF right.t = "num" /\ QIsZero(right.q) THEN ErrorMarker
             ELSE JsDiv(left, right)
      ELSE IF op = <<"+">> THEN JsAdd(left, right)
      ELSE IF op = <<"-">> THEN JsSub(left, right)
      ELSE JsNull

\* Lines 595-599: what is pushed for a computed value.
StoredResult(value) ==
  IF value # JsNull /\ value # ErrorMarker
    THEN IF value.t \in {"num", "nan"} THEN JsRound10(value) ELSE value
    ELSE value

\* The for loop of getDiagramResults from block i with `results` so far.
RECURSIVE ResultsFrom(_, _, _)
ResultsFrom(blocks, i, results) ==
  IF i > Len(blocks) THEN results
  ELSE ResultsFrom(blocks, i + 1,
                   Append(results, StoredResult(computeDiagramBlock(blocks[i], results))))

\* Mutant: a second pass computes every block against all the results of
\* the first.
getDiagramResultsTwoPasses(blocks) ==
  LET first == ResultsFrom(blocks, 1, <<>>)
  IN  [i \in 1..Len(blocks) |-> StoredResult(computeDiagramBlock(blocks[i], first))]

getDiagramResults(blocks) == ResultsFrom(blocks, 1, <<>>)

\* Line 644: the text of a block's result element.
ResultText(result) ==
  IF result = JsNull THEN <<"?">>
  ELSE IF result = ErrorMarker THEN ErrorText
  ELSE JsToString(result)

\* Lines 608-682: one result element per block, in list order.
ResultTexts(blocks, results) == [i \in 1..Len(blocks) |-> ResultText(results[i])]

(***************************************************************************)
(* The evaluator applied to bounded inputs                                 *)
(***************************************************************************)
RawChars == {"0", "5", ".", "%", "+", "-", "*", "/", "a"}

\* Every string over RawChars of at most MaxRawLen characters.
RawInputs == UNION {[1..k -> RawChars] : k \in 0..MaxRawLen}

Literals == {<<"0">>, <<"2">>, <<"5">>, <<"2", "0">>, <<"8", "%">>}

\* Literals separated by single operators: k numbers, k - 1 operators.
RECURSIVE ExprsOf(_)
ExprsOf(k) ==
  IF k = 1 THEN Literals
  ELSE {e \o <<o>> \o l : e \in ExprsOf(k - 1), o \in OpChars, l \in Literals}

ExprInputs == UNION {ExprsOf(k) : k \in 1..MaxNums}

Inputs == RawInputs \cup ExprInputs

InitDiagram ==
  /\ diagramBlocks = <<>>
  /\ diagramBlockId = 0
  /\ diagramResults = <<>>
  /\ shown = <<>>
  /\ edits = 0

\* app.js:34-36, no key pressed yet
InitCalc ==
  /\ display = <<"0">>
  /\ displayText = <<"0">>
  /\ pendingOp = JsNull
  /\ pendingValue = JsNull
  /\ lastKey = ""
  /\ prevDisplay = <<"0">>
  /\ keys = 0

\* No sample of a graph series taken yet
InitGraph ==
  /\ graphExpr = <<>>
  /\ graphX = Q(0)
  /\ graphY = Pending

\* app.js:548-555, nothing stored: renderNotepad ran on the empty text
InitNotepad ==
  /\ notepadInput = <<>>
  /\ notepadOutput = <<>>

\* No call of evaluate under way
IdleFrame ==
  [pc |-> "idle", str |-> <<>>, i |-> 0, tokens |-> <<>>, nums |-> <<>>,
   ops |-> <<>>, pass |-> 0, ret |-> Pending]

InitFrame == frame = IdleFrame

\* ai-widget.js:273, the widget greeted and nothing was sent
Greeting == [type |-> "bot", text |-> <<"H", "e", "y">>, chips |-> {}, replaced |-> 0]

InitChat ==
  /\ inputValue = <<>>
  /\ sendDisabled = FALSE
  /\ messages = <<Greeting>>
  /\ inFlight = {}
  /\ sends = 0

\* What signUp and signIn have given back before either was called
NoReturn ==
  [op |-> "none", email |-> <<>>, password |-> <<>>, result |-> "none", n |-> 0]

\* part_002:25-43, localStorage holds neither USERS_KEY nor SESSION_KEY
InitAuth ==
  /\ users = <<>>
  /\ session = <<>>
  /\ authCalls = {}
  /\ authReturn = NoReturn
  /\ authCount = 0

\* The content keys the page saves under (app.js:546, app.js:2916)
ContentKeys ==
  {<<"n", "o", "t", "e", "p", "a", "d">>, <<"v", "o", "c", "a", "b">>}

\* No saveContent has run yet
NoSave == [key |-> <<>>, value |-> <<>>, owner |-> <<>>, k |-> <<>>, timer |-> 0]

\* data-service.js:5, no content stored and no timer set
InitData ==
  /\ storage = <<>>
  /\ debounceTimers = [key \in ContentKeys |-> 0]
  /\ timers = {}
  /\ timerId = 0
  /\ burst = [key \in ContentKeys |-> [calls |-> 0, last |-> <<>>, saved |-> <<>>]]
  /\ lastSave = NoSave
  /\ dataCalls = 0

InitPage ==
  /\ InitChat
  /\ InitAuth
  /\ InitData

InitEval ==
  /\ expr \in Inputs
  /\ outcome = Pending
  /\ InitDiagram
  /\ InitCalc
  /\ InitGraph
  /\ InitNotepad
  /\ InitFrame
  /\ InitPage

\* A caller hands expr to evaluate and receives the outcome.
Evaluate ==
  /\ outcome = Pending
  /\ outcome' = evaluate(expr)
  /\ UNCHANGED <<expr, diagramVars, calcVars, graphVars, noteVars, frame, pageVars>>

NextEval == Evaluate

SpecEval == InitEval /\ [][NextEval]_vars

(***************************************************************************)
(* The diagram tool: the handlers that change diagramBlocks                *)
(***************************************************************************)
\* app.js:604-684, called once diagramBlocks has its new value.
renderDiagramBlocks ==
  /\ diagramResults' = getDiagramResults(diagramBlocks')
  /\ shown' = ResultTexts(diagramBlocks', diagramResults')

SlotTexts == {<<"0">>, <<"#", "3">>, <<"x">>}
OpTexts == {<<"/">>, <<>>, <<"^">>}

\* Mutant: the new block takes its position as id.
addDiagramBlockIdByPosition ==
  /\ Len(diagramBlocks) < MaxBlocks
  /\ diagramBlockId < MaxId
  /\ LET first == Len(diagramBlocks) = 0
         b == Block(Len(diagramBlocks) + 1,
                    IF first THEN <<"5">> ELSE <<"#", "1">>,
                    <<"*">>,
                    IF first THEN <<"2", "0">> ELSE <<"1", "0">>)
     IN  /\ diagramBlocks' = Append(diagramBlocks, b)
         /\ diagramBlockId' = diagramBlockId + 1
         /\ renderDiagramBlocks
  /\ UNCHANGED <<edits, evalVars, calcVars, graphVars, noteVars, frame, pageVars>>

\* app.js:733-741
addDiagramBlock ==
  /\ Len(diagramBlocks) < MaxBlocks
  /\ diagramBlockId < MaxId
  /\ LET first == Len(diagramBlocks) = 0
         b == Block(diagramBlockId + 1,
                    IF first THEN <<"5">> ELSE <<"#", "1">>,
                    <<"*">>,
                    IF first THEN <<"2", "0">> ELSE <<"1", "0">>)
     IN  /\ diagramBlocks' = Append(diagramBlocks, b)
         /\ diagramBlockId' = diagramBlockId + 1
         /\ renderDiagramBlocks
  /\ UNCHANGED <<edits, evalVars, calcVars, graphVars, noteVars, frame, pageVars>>

\* app.js:662-668 after an input event that leaves the three slots of the
\* block at position i holding left, op and right.
SyncedBlocks(blocks, i, left, op, right) ==
  [blocks EXCEPT ![i] = Block(blocks[i].id, left,
                              IF Trim(op) = <<>> THEN DefaultOp ELSE Trim(op),
                              right)]

syncBlock(i, left, op, right) ==
  /\ edits < MaxEdits
  /\ edits' = edits + 1
  /\ diagramBlocks' = SyncedBlocks(diagramBlocks, i, left, op, right)
  /\ renderDiagramBlocks
  /\ UNCHANGED <<diagramBlockId, evalVars, calcVars, graphVars, noteVars, frame, pageVars>>

EditLeft ==
  \E i \in 1..Len(diagramBlocks), text \in SlotTexts :
    syncBlock(i, text, diagramBlocks[i].op, diagramBlocks[i].right)

EditOp ==
  \E i \in 1..Len(diagramBlocks), text \in OpTexts :
    syncBlock(i, diagramBlocks[i].left, text, diagramBlocks[i].right)

EditRight ==
  \E i \in 1..Len(diagramBlocks), text \in SlotTexts :
    syncBlock(i, diagramBlocks[i].left, diagramBlocks[i].op, text)

\* diagramBlocks.filter((b) => b.id !== block.id)
WithoutId(blocks, id) == SelectSeq(blocks, LAMBDA b : b.id # id)

\* Mutant: only the card of the removed block leaves the page; the other
\* result elements keep their text.
removeBlockKeepTexts(i) ==
  /\ diagramBlocks' = WithoutId(diagramBlocks, diagramBlocks[i].id)
  /\ shown' = SubSeq(shown, 1, i - 1) \o SubSeq(shown, i + 1, Len(shown))
  /\ diagramResults' =
       SubSeq(diagramResults, 1, i - 1) \o SubSeq(diagramResults, i + 1, Len(diagramResults))
  /\ UNCHANGED <<diagramBlockId, edits, evalVars, calcVars, graphVars, noteVars, frame, pageVars>>

\* app.js:675-679, the Remove button of the block at position i.
removeBlock(i) ==
  /\ diagramBlocks' = WithoutId(diagramBlocks, diagramBlocks[i].id)
  /\ renderDiagramBlocks
  /\ UNCHANGED <<diagramBlockId, edits, evalVars, calcVars, graphVars, noteVars, frame, pageVars>>

Remove == \E i \in 1..Len(diagramBlocks) : removeBlock(i)

WalkthroughBlocks(id) ==
  << Block(id + 1, <<"5">>, <<"*">>, <<"2", "0">>),
     Block(id + 2, <<"#", "1">>, <<"+">>, <<"3", "0">>),
     Block(id + 3, <<"#", "2">>, <<"-">>, <<"1", "5">>) >>

\* app.js:945-954
runDiagramWalkthrough ==
  /\ diagramBlockId + 3 <= MaxId
  /\ diagramBlocks' = WalkthroughBlocks(diagramBlockId)
  /\ diagramBlockId' = diagramBlockId + 3
  /\ renderDiagramBlocks
  /\ UNCHANGED <<edits, evalVars, calcVars, graphVars, noteVars, frame, pageVars>>

InitBlocks ==
  /\ expr = <<>>
  /\ outcome = Pending
  /\ InitDiagram
  /\ InitCalc
  /\ InitGraph
  /\ InitNotepad
  /\ InitFrame
  /\ InitPage

NextDiagram ==
  \/ addDiagramBlock
  \/ EditLeft
  \/ EditOp
  \/ EditRight
  \/ Remove
  \/ runDiagramWalkthrough

SpecDiagram == InitBlocks /\ [][NextDiagram]_vars

(***************************************************************************)
(* The keypad calculator (app.js:34-36, 221-227, 303-392, 926-936)         *)
(***************************************************************************)
MAX_DISPLAY_LEN == 24

CalcState(d, text, op, value) ==
  [display |-> d, text |-> text, pendingOp |-> op, pendingValue |-> value]

\* updateDisplay(value) for a value already converted by String
updateDisplay(s, value) ==
  LET cut == IF Len(value) > MAX_DISPLAY_LEN
               THEN SubSeq(value, 1, MAX_DISPLAY_LEN) ELSE value
  IN  [s EXCEPT !.display = cut, !.text = cut]

\* Mutant: 'C' resets the display only.
PressClearDisplayOnly(s) == updateDisplay(s, <<"0">>)

\* Lines 304-309
PressClear(s) ==
  updateDisplay([s EXCEPT !.pendingOp = JsNull, !.pendingValue = JsNull], <<"0">>)

\* Mutant: the display is left showing the error marker.
ErrorResetSkipped(s) == s

\* Lines 312-316
ErrorReset(s) ==
  IF s.display = ErrorText
    THEN [s EXCEPT !.display = <<"0">>, !.pendingOp = JsNull, !.pendingValue = JsNull]
    ELSE s

HasPending(s) == s.pendingOp # JsNull /\ s.pendingValue # JsNull

\* pendingValue + pendingOp + display
PendingExpr(s) == s.pendingValue.s \o s.pendingOp.s \o s.display

\* Lines 318-334
PressEquals(s) ==
  IF HasPending(s) /\ s.display # <<>>
    THEN LET result == evaluate(PendingExpr(s))
         IN  IF result = JsNull THEN s
             ELSE updateDisplay([s EXCEPT !.pendingOp = JsNull, !.pendingValue = JsNull],
                                JsToString(result))
    ELSE LET result == evaluate(s.display)
         IN  IF result # JsNull THEN updateDisplay(s, JsToString(result))
             ELSE updateDisplay(s, s.display)

\* Lines 336-353
PressPercent(s) ==
  LET current == ParseFloat(s.display)
      base == IF s.pendingValue = JsNull THEN JsNaN ELSE ParseFloat(s.pendingValue.s)
      hundredth == QDiv(current.q, Q(100))
  IN  IF current.t = "nan" THEN s
      ELSE IF HasPending(s)
        THEN IF base.t = "nan" THEN s
             ELSE IF s.pendingOp.s \in {<<"+">>, <<"-">>}
               THEN updateDisplay(s, NumberToString(Round10(
                      QDiv(QMul(base.q, current.q), Q(100)))))
               ELSE updateDisplay(s, NumberToString(Round10(hundredth)))
      ELSE updateDisplay(s, NumberToString(Round10(hundredth)))

\* Lines 355-372
PressOperator(s, value) ==
  LET ready == HasPending(s) /\ s.display # <<>> /\ s.display # <<"0">>
      result == evaluate(PendingExpr(s))
  IN  IF ready /\ result # JsNull /\ result # ErrorMarker
        THEN updateDisplay([s EXCEPT !.pendingValue = JsStr(JsToString(result)),
                                     !.pendingOp = JsStr(<<value>>)], <<"0">>)
        ELSE updateDisplay([s EXCEPT !.pendingValue = JsStr(s.display),
                                     !.pendingOp = JsStr(<<value>>)], <<"0">>)

\* display.split(/[\+\-\*\/]/).pop(): what follows the last operator character
RECURSIVE LastPart(_)
LastPart(d) ==
  IF d = <<>> \/ d[Len(d)] \in OpChars THEN <<>>
  ELSE Append(LastPart(SubSeq(d, 1, Len(d) - 1)), d[Len(d)])

\* Lines 382 and 390: the new display is shown when it fits
ShowIfFits(s, d) ==
  IF Len(d) <= MAX_DISPLAY_LEN THEN updateDisplay(s, d) ELSE [s EXCEPT !.display = d]

\* Lines 374-384
PressPoint(s) ==
  LET d == s.display IN
  IF "." \in {LastPart(d)[k] : k \in 1..Len(LastPart(d))} THEN s
  ELSE IF d = <<"0">> THEN ShowIfFits(s, <<"0", ".">>)
  ELSE IF d # <<>> /\ d[Len(d)] \in OpChars THEN ShowIfFits(s, d \o <<"0", ".">>)
  ELSE ShowIfFits(s, Append(d, "."))

\* Lines 386-391
PressDigit(s, value) ==
  IF s.display = <<"0">> /\ value # "0" THEN ShowIfFits(s, <<value>>)
  ELSE IF s.display # <<"0">> THEN ShowIfFits(s, Append(s.display, value))
  ELSE ShowIfFits(s, <<"0">>)

\* handleInput(value): the calculator state it leaves from the state s
AfterInput(s, value) ==
  IF value = "C" THEN PressClear(s)
  ELSE LET t == ErrorReset(s) IN
       IF value = "=" THEN PressEquals(t)
       ELSE IF value = "%" THEN PressPercent(t)
       ELSE IF value \in OpChars THEN PressOperator(t, value)
       ELSE IF value = "." THEN PressPoint(t)
       ELSE IF value \in DigitChars THEN PressDigit(t, value)
       ELSE t

Current == CalcState(display, displayText, pendingOp, pendingValue)

SetCalc(s) ==
  /\ display' = s.display
  /\ displayText' = s.text
  /\ pendingOp' = s.pendingOp
  /\ pendingValue' = s.pendingValue

KeyValues == {"C", "=", "%", "+", "-", "/", ".", "0", "5"}
DigitKeys == KeyValues \cap DigitChars

\* app.js:394-401, a click on the key whose data-value is value
handleInput(value) ==
  /\ keys < MaxKeys
  /\ keys' = keys + 1
  /\ lastKey' = value
  /\ prevDisplay' = display
  /\ SetCalc(AfterInput(Current, value))
  /\ UNCHANGED <<evalVars, diagramVars, graphVars, noteVars, frame, pageVars>>

PressKey == \E value \in KeyValues : handleInput(value)

\* app.js:926-936
runCalculatorWalkthrough ==
  /\ keys < MaxKeys
  /\ keys' = keys + 1
  /\ lastKey' = "walkthrough"
  /\ prevDisplay' = display
  /\ LET result == evaluate(<<"1", "2", "+", "8">>)
     IN  SetCalc(updateDisplay(CalcState(display, displayText, JsNull, JsNull),
                               IF result = JsNull THEN <<"2", "0">> ELSE JsToString(result)))
  /\ UNCHANGED <<evalVars, diagramVars, graphVars, noteVars, frame, pageVars>>

InitKeypad ==
  /\ expr = <<>>
  /\ outcome = Pending
  /\ InitDiagram
  /\ InitCalc
  /\ InitGraph
  /\ InitNotepad
  /\ InitFrame
  /\ InitPage

NextKeypad ==
  \/ PressKey
  \/ runCalculatorWalkthrough

SpecKeypad == InitKeypad /\ [][NextKeypad]_vars

\* The display after the digit key '5' was pressed k times from the initial
\* state (lines 386-391).
Fives(k) == [i \in 1..k |-> "5"]

\* The keypad once the display is nearly full: MAX_DISPLAY_LEN - 1 or
\* MAX_DISPLAY_LEN digits have been typed.
InitKeypadLong ==
  /\ \E k \in (MAX_DISPLAY_LEN - 1)..MAX_DISPLAY_LEN :
       /\ display = Fives(k)
       /\ displayText = Fives(k)
       /\ prevDisplay = Fives(k - 1)
  /\ lastKey = "5"
  /\ pendingOp = JsNull
  /\ pendingValue = JsNull
  /\ keys = 0
  /\ expr = <<>>
  /\ outcome = Pending
  /\ InitDiagram
  /\ InitGraph
  /\ InitNotepad
  /\ InitFrame
  /\ InitPage

\* The keys that enter a number: none of them converts the display to a
\* number, so digits beyond the precision of a double play no part.
EntryKeys == {"C", ".", "0", "5"}

PressEntryKey == \E value \in EntryKeys : handleInput(value)

NextKeypadLong == PressEntryKey

SpecKeypadLong == InitKeypadLong /\ [][NextKeypadLong]_vars

(***************************************************************************)
(* The function grapher's sampler (app.js:750-760, 797-813)                *)
(***************************************************************************)
XChars == {"x", "X"}
ArithChars == DigitChars \cup OpChars \cup {".", "%"}

\* expr.trim().replace(/\s/g, '')
WithoutSpaces(s) == SelectSeq(s, LAMBDA c : c # " ")

\* replace(/(\d)x/gi, '$1*' + xStr): matches are taken left to right and
\* do not overlap.
RECURSIVE ReplaceDigitX(_, _)
ReplaceDigitX(s, xStr) ==
  IF Len(s) < 2 THEN s
  ELSE IF s[1] \in DigitChars /\ s[2] \in XChars
    THEN <<s[1], "*">> \o xStr \o ReplaceDigitX(SubSeq(s, 3, Len(s)), xStr)
  ELSE <<s[1]>> \o ReplaceDigitX(Tail(s), xStr)

\* replace(/x(\d)/gi, xStr + '*$1')
RECURSIVE ReplaceXDigit(_, _)
ReplaceXDigit(s, xStr) ==
  IF Len(s) < 2 THEN s
  ELSE IF s[1] \in XChars /\ s[2] \in DigitChars
    THEN xStr \o <<"*", s[2]>> \o ReplaceXDigit(SubSeq(s, 3, Len(s)), xStr)
  ELSE <<s[1]>> \o ReplaceXDigit(Tail(s), xStr)

\* replace(/x/gi, xStr)
RECURSIVE ReplaceX(_, _)
ReplaceX(s, xStr) ==
  IF s = <<>> THEN <<>>
  ELSE (IF Head(s) \in XChars THEN xStr ELSE <<Head(s)>>) \o ReplaceX(Tail(s), xStr)

\* Lines 752-756: the string handed to evaluate
Substituted(e, x) ==
  LET xStr == NumberToString(x)
  IN  Filter(ReplaceX(ReplaceXDigit(ReplaceDigitX(WithoutSpaces(Trim(e)), xStr), xStr), xStr),
             ArithChars)

evaluateWithX(e, x) ==
  IF e = <<>> THEN JsNull
  ELSE LET safe == Substituted(e, x)
       IN  IF safe = <<>> \/ Filter(safe, DigitChars) = <<>> THEN JsNull
           ELSE LET result == evaluate(safe)
                IN  IF result = ErrorMarker THEN JsNull ELSE result

\* Sample values of drawGraph's loop (x = -10, then x += 0.04 in doubles):
\* the first two, the first positive one and the last, as String prints them.
XSampleTexts ==
  { <<"-", "1", "0">>,
    <<"-", "9", ".", "9", "6">>,
    <<"0", ".", "0", "3", "9", "9", "9", "9", "9", "9", "9", "9", "9", "9", "6", "3", "9", "3">>,
    <<"9", ".", "9", "9", "9", "9", "9", "9", "9", "9", "9", "9", "9", "9", "9", "2", "7">> }

XSamples == {ParseFloat(t).q : t \in XSampleTexts}

GraphTerms == {<<"x">>, <<"2", "x">>, <<"x", "2">>, <<"5">>, <<"0">>}

\* Terms separated by single operators: k terms, k - 1 operators.
RECURSIVE GraphExprsOf(_)
GraphExprsOf(k) ==
  IF k = 1 THEN GraphTerms
  ELSE {e \o <<o>> \o t : e \in GraphExprsOf(k - 1), o \in OpChars, t \in GraphTerms}

GraphExprs == UNION {GraphExprsOf(k) : k \in 1..MaxTerms}

InitSampler ==
  /\ graphExpr \in GraphExprs
  /\ graphX \in XSamples
  /\ graphY = Pending
  /\ expr = <<>>
  /\ outcome = Pending
  /\ InitDiagram
  /\ InitCalc
  /\ InitNotepad
  /\ InitFrame
  /\ InitPage

\* app.js:805, one pass of the loop body for one series
Sample ==
  /\ graphY = Pending
  /\ graphY' = evaluateWithX(graphExpr, graphX)
  /\ UNCHANGED <<graphExpr, graphX, evalVars, diagramVars, calcVars, noteVars, frame, pageVars>>

NextSampler == Sample

SpecSampler == InitSampler /\ [][NextSampler]_vars

(***************************************************************************)
(* The notepad (app.js:515-547)                                            *)
(***************************************************************************)
NewLine == "\n"

\* text.split(/\r?\n/) for a text without carriage returns
RECURSIVE SplitLines(_)
SplitLines(text) ==
  LET breaks == {k \in 1..Len(text) : text[k] = NewLine}
  IN  IF breaks = {} THEN <<text>>
      ELSE LET k == CHOOSE b \in breaks : \A c \in breaks : b <= c
           IN  <<SubSeq(text, 1, k - 1)>> \o SplitLines(SubSeq(text, k + 1, Len(text)))

\* lines.join('\n')
RECURSIVE JoinLines(_)
JoinLines(lines) ==
  IF Len(lines) = 1 THEN lines[1]
  ELSE lines[1] \o <<NewLine>> \o JoinLines(Tail(lines))

\* line.split('=')[0]: what precedes the first '='
RECURSIVE BeforeEq(_)
BeforeEq(line) ==
  IF line = <<>> \/ Head(line) = "=" THEN <<>>
  ELSE <<Head(line)>> \o BeforeEq(Tail(line))

\* '  ->  ' with the arrow U+2192 written as the one element "->"
ArrowText == <<" ", " ", "->", " ", " ">>
BracketedError == <<"[">> \o ErrorText \o <<"]">>

\* Mutant: a division by zero leaves the line as typed.
RenderLineErrorSilent(line) ==
  IF Trim(line) = <<>> THEN <<>>
  ELSE IF Filter(line, {"="}) = <<>> THEN line
  ELSE LET e == Filter(Trim(BeforeEq(line)), ArithChars)
           result == evaluate(e)
       IN  IF e = <<>> \/ Filter(e, DigitChars) = <<>> THEN line
           ELSE IF result = JsNull \/ result = ErrorMarker THEN line
           ELSE line \o ArrowText \o JsToString(result)

\* Lines 520-536: the rendering of one line
RenderLine(line) ==
  IF Trim(line) = <<>> THEN <<>>
  ELSE IF Filter(line, {"="}) = <<>> THEN line
  ELSE LET exprRaw == Trim(BeforeEq(line))
           e == Filter(exprRaw, ArithChars)
           result == evaluate(e)
       IN  IF exprRaw = <<>> THEN line
           ELSE IF e = <<>> \/ Filter(e, DigitChars) = <<>> THEN line
           ELSE IF result = JsNull THEN line
           ELSE IF result = ErrorMarker THEN line \o ArrowText \o BracketedError
           ELSE line \o ArrowText \o JsToString(result)

\* Lines 517-539: notepadOutput.textContent for the text of notepadInput
Rendered(text) ==
  LET lines == SplitLines(text)
  IN  JoinLines([k \in 1..Len(lines) |-> RenderLine(lines[k])])

NoteChars == {"5", "0", "/", "=", " ", "a", NewLine}

\* app.js:543-547, an input event that appends the character c
TypeChar ==
  \E c \in NoteChars :
    /\ Len(notepadInput) < MaxNoteLen
    /\ notepadInput' = Append(notepadInput, c)
    /\ notepadOutput' = Rendered(notepadInput')
    /\ UNCHANGED <<evalVars, diagramVars, calcVars, graphVars, frame, pageVars>>

\* app.js:543-547, an input event that deletes the last character
EraseChar ==
  /\ notepadInput # <<>>
  /\ notepadInput' = SubSeq(notepadInput, 1, Len(notepadInput) - 1)
  /\ notepadOutput' = Rendered(notepadInput')
  /\ UNCHANGED <<evalVars, diagramVars, calcVars, graphVars, frame, pageVars>>

InitNotes ==
  /\ InitNotepad
  /\ expr = <<>>
  /\ outcome = Pending
  /\ InitDiagram
  /\ InitCalc
  /\ InitGraph
  /\ InitFrame
  /\ InitPage

NextNotes ==
  \/ TypeChar
  \/ EraseChar

SpecNotes == InitNotes /\ [][NextNotes]_vars

(***************************************************************************)
(* One call of evaluate run statement by statement (app.js:229-301): the   *)
(* frame holds the locals of tokenize and evaluate, one action is one      *)
(* iteration of a loop or the code between two loops.                      *)
(***************************************************************************)
Returned(f, value) == [f EXCEPT !.pc = "done", !.ret = value]

\* Lines 233-254: one iteration of tokenize's outer loop
TokenizeStep ==
  /\ frame.pc = "tokenize"
  /\ frame.i <= Len(frame.str)
  /\ \E j \in {NumRunEnd(frame.str, frame.i)} :
     \E n \in {ParseFloat(SubSeq(frame.str, frame.i, j - 1))} :
       LET str == frame.str
           c == str[frame.i]
           isPercent == j <= Len(str) /\ str[j] = "%"
       IN  frame' =
             IF c \in OpChars
               THEN [frame EXCEPT !.i = @ + 1, !.tokens = Append(@, OpToken(c))]
             ELSE IF c \in DigitChars \/ c = "."
               THEN IF n.t = "nan" THEN Returned(frame, JsNull)
                    ELSE [frame EXCEPT !.i = IF isPercent THEN j + 1 ELSE j,
                                       !.tokens = Append(@, NumToken(n.q, isPercent))]
             ELSE [frame EXCEPT !.i = @ + 1]
  /\ UNCHANGED <<evalVars, diagramVars, calcVars, graphVars, noteVars, pageVars>>

\* Lines 255 and 259-271: tokenize returns its tokens, evaluate checks their
\* shape and splits them
SplitTokens ==
  /\ frame.pc = "tokenize"
  /\ frame.i > Len(frame.str)
  /\ LET tk == frame.tokens
     IN  frame' =
           IF Len(tk) = 0 \/ tk[1].type # "num" THEN Returned(frame, JsNull)
           ELSE IF Len(tk) = 1
             THEN Returned(frame, JsNum(AsDecimal(PercentAdjust(
                                          Operand(tk[1].value, tk[1].isPercent)))))
           ELSE IF CountMismatch(OpsOf(tk), NumsOf(tk)) THEN Returned(frame, JsNull)
           ELSE [frame EXCEPT !.pc = "reduce", !.nums = NumsOf(tk),
                              !.ops = OpsOf(tk), !.pass = 0]
  /\ UNCHANGED <<evalVars, diagramVars, calcVars, graphVars, noteVars, pageVars>>

\* Line 274
Priority(pass) == IF pass = 0 THEN FirstPriority ELSE SecondPriority

\* Lines 275-296: one iteration of the while loop; reading isPercent of an
\* operand that is not there throws.
ReduceStep ==
  /\ frame.pc = "reduce"
  /\ \E idx \in {FindIndex(frame.ops, Priority(frame.pass))} :
       /\ idx # 0
       /\ IF idx + 1 > Len(frame.nums) THEN frame' = [frame EXCEPT !.pc = "thrown"]
          ELSE \E c \in {Combine(frame.nums[idx], frame.ops[idx], frame.nums[idx + 1])} :
                 frame' = IF c.err THEN Returned(frame, ErrorMarker)
                          ELSE [frame EXCEPT
                                  !.nums = Splice2(@, idx, Operand(c.value, FALSE)),
                                  !.ops = Splice1(@, idx)]
  /\ UNCHANGED <<evalVars, diagramVars, calcVars, graphVars, noteVars, pageVars>>

\* Lines 273 and 298-300: the while condition fails; the second pass
\* follows the first, the return follows the second
EndPass ==
  /\ frame.pc = "reduce"
  /\ FindIndex(frame.ops, Priority(frame.pass)) = 0
  /\ frame' =
       IF frame.pass = 0 THEN [frame EXCEPT !.pass = 1]
       ELSE Returned(frame, JsNum(Round10(PercentAdjust(frame.nums[1]))))
  /\ UNCHANGED <<evalVars, diagramVars, calcVars, graphVars, noteVars, pageVars>>

StepChars == {"5", "0", ".", "%", "-", "/", "a"}
StepLiterals == {<<"0">>, <<"5">>, <<"8", "%">>}

\* Literals separated by single operators: k numbers, k - 1 operators.
RECURSIVE StepExprsOf(_)
StepExprsOf(k) ==
  IF k = 1 THEN StepLiterals
  ELSE {e \o <<o>> \o l : e \in StepExprsOf(k - 1), o \in OpChars, l \in StepLiterals}

StepInputs ==
  UNION {[1..k -> StepChars] : k \in 0..MaxStepLen}
    \cup UNION {StepExprsOf(k) : k \in 1..MaxStepNums}

\* Lines 258-259: evaluate is called with a string and calls tokenize
CallEvaluate ==
  /\ frame.pc = "idle"
  /\ \E str \in StepInputs :
       frame' = [frame EXCEPT !.pc = "tokenize", !.str = str, !.i = 1]
  /\ UNCHANGED <<evalVars, diagramVars, calcVars, graphVars, noteVars, pageVars>>

InitSteps ==
  /\ InitFrame
  /\ InitPage
  /\ expr = <<>>
  /\ outcome = Pending
  /\ InitDiagram
  /\ InitCalc
  /\ InitGraph
  /\ InitNotepad

\* The statements of a call that is under way
RunSteps ==
  \/ TokenizeStep
  \/ SplitTokens
  \/ ReduceStep
  \/ EndPass

NextSteps ==
  \/ CallEvaluate
  \/ RunSteps

\* A call that is under way runs on its own: no statement waits for
\* anything.
SpecSteps == InitSteps /\ [][NextSteps]_vars /\ WF_vars(RunSteps)

(***************************************************************************)
(* Claims about evaluate, checked under SpecEval                           *)
(***************************************************************************)
Evaluated == outcome # Pending

Dec(n, places) == Decimal(FALSE, NFromInt(n), places)

\* The greatest index of s holding a character of set, 0 when none does.
LastIndexIn(s, set) ==
  LET hits == {i \in 1..Len(s) : s[i] \in set}
  IN  IF hits = {} THEN 0 ELSE CHOOSE i \in hits : \A j \in hits : j <= i

\* A numeral: digits with at most one point and at least one digit.
IsNumeral(s) ==
  /\ s # <<>>
  /\ \A i \in 1..Len(s) : s[i] \in DigitChars \cup {"."}
  /\ Cardinality({i \in 1..Len(s) : s[i] = "."}) <= 1
  /\ \E i \in 1..Len(s) : s[i] \in DigitChars

\* Numerals separated by single operators.
RECURSIVE PlainExpression(_)
PlainExpression(s) ==
  LET i == LastIndexIn(s, OpChars)
  IN  IF i = 0 THEN IsNumeral(s)
      ELSE IsNumeral(SubSeq(s, i + 1, Len(s))) /\ PlainExpression(SubSeq(s, 1, i - 1))

\* The reference evaluator: a grammar of sums of products, both left
\* associative.  product := product (* | /) numeral | numeral
RECURSIVE RefProduct(_)
RefProduct(s) ==
  LET i == LastIndexIn(s, MulDivOps) IN
  IF i = 0 THEN [err |-> FALSE, value |-> ParseFloat(s).q]
  ELSE LET l == RefProduct(SubSeq(s, 1, i - 1))
           r == ParseFloat(SubSeq(s, i + 1, Len(s))).q
       IN  IF l.err \/ (s[i] = "/" /\ QIsZero(r)) THEN [err |-> TRUE, value |-> Q(0)]
           ELSE [err |-> FALSE,
                 value |-> IF s[i] = "*" THEN QMul(l.value, r) ELSE QDiv(l.value, r)]

\* sum := sum (+ | -) product | product
RECURSIVE RefSum(_)
RefSum(s) ==
  LET i == LastIndexIn(s, AddSubOps) IN
  IF i = 0 THEN RefProduct(s)
  ELSE LET l == RefSum(SubSeq(s, 1, i - 1))
           r == RefProduct(SubSeq(s, i + 1, Len(s)))
       IN  IF l.err \/ r.err THEN [err |-> TRUE, value |-> Q(0)]
           ELSE [err |-> FALSE,
                 value |-> IF s[i] = "+" THEN QAdd(l.value, r.value)
                           ELSE QSub(l.value, r.value)]

\* C1: for an expression of non-negative literals without '%' separated by
\* single operators and free of division by zero, evaluate returns the
\* number of the reference evaluator (* and / before + and -, equal
\* precedence from left to right), rounded to ten places.
C1_Precedence ==
  (Evaluated /\ PlainExpression(expr) /\ ~RefSum(expr).err)
    => outcome = JsNum(Round10(RefSum(expr).value))

\* 20/2/5 is 2 (not 50) and 2+5*2 is 12 (not 14).
C1_Witness ==
  \/ expr = <<"2", "0", "/", "2", "/", "5">> /\ outcome = JsNum(Q(2))
  \/ expr = <<"2", "+", "5", "*", "2">> /\ outcome = JsNum(Q(12))

\* What the claim gives for a op b.
ClaimedCombine(a, op, b) ==
  LET base == IF a.isPercent THEN QDiv(a.value, Q(100)) ELSE a.value
      other == IF b.isPercent THEN QDiv(b.value, Q(100)) ELSE b.value
      share == QMul(base, QDiv(b.value, Q(100)))
  IN  CASE op = "+" -> IF b.isPercent THEN QAdd(base, share) ELSE QAdd(base, other)
        [] op = "-" -> IF b.isPercent THEN QSub(base, share) ELSE QSub(base, other)
        [] op = "*" -> QMul(base, other)
        [] op = "/" -> QDiv(base, other)

\* Two or three operands: the combined operand enters the next
\* combination as a plain number.
ClaimedValue(nums, ops) ==
  IF Len(nums) = 2 THEN ClaimedCombine(nums[1], ops[1], nums[2])
  ELSE IF ops[1] \in MulDivOps \/ ops[2] \in AddSubOps
    THEN ClaimedCombine(Operand(ClaimedCombine(nums[1], ops[1], nums[2]), FALSE),
                        ops[2], nums[3])
    ELSE ClaimedCombine(nums[1], ops[1],
                        Operand(ClaimedCombine(nums[2], ops[2], nums[3]), FALSE))

Alternating(tokens) ==
  \A i \in 1..Len(tokens) : tokens[i].type = (IF i % 2 = 1 THEN "num" ELSE "op")

\* C2: a op b with b percent-flagged under + or - is a +- a*(b_raw/100), a
\* divided by 100 first when flagged; under * or / each flagged operand is
\* divided by 100; the combined operand is not percent-flagged.
C2_Percent ==
  LET tk == tokenize(expr) IN
  (Evaluated /\ tk.ok /\ Len(tk.tokens) \in {3, 5} /\ Alternating(tk.tokens)
     /\ outcome.t = "num")
    => outcome = JsNum(Round10(ClaimedValue(NumsOf(tk.tokens), OpsOf(tk.tokens))))

\* 20+8% is 21.6; 2+5*8% is 2.4, the product 0.4 entering as a plain number.
C2_Witness ==
  \/ expr = <<"2", "0", "+", "8", "%">> /\ outcome = JsNum(Dec(216, 1))
  \/ expr = <<"2", "+", "5", "*", "8", "%">> /\ outcome = JsNum(Dec(24, 1))

\* Some division has a right operand whose value is zero.
ZeroDivisor(nums, ops) ==
  \E i \in 1..Len(ops) : ops[i] = "/" /\ QIsZero(PercentAdjust(nums[i + 1]))

\* The token list passes lines 260 and 271.
PassesShape(tk) ==
  /\ tk.ok
  /\ Len(tk.tokens) > 1
  /\ tk.tokens[1].type = "num"
  /\ Len(OpsOf(tk.tokens)) = Len(NumsOf(tk.tokens)) - 1

\* C3: an expression that tokenizes and passes the shape check and has a
\* division whose right operand is zero evaluates to ErrorMarker,
\* whatever else it holds.
C3_DivisionByZero ==
  LET tk == tokenize(expr) IN
  (Evaluated /\ PassesShape(tk) /\ ZeroDivisor(NumsOf(tk.tokens), OpsOf(tk.tokens)))
    => outcome = ErrorMarker

\* 5/0+2: the division by zero precedes an addition left unreduced.
C3_Witness ==
  expr = <<"5", "/", "0", "+", "2">> /\ outcome = ErrorMarker

FirstIsOperator(s) ==
  LET sig == Filter(s, DigitChars \cup OpChars \cup {"."})
  IN  sig # <<>> /\ Head(sig) \in OpChars

AdjacentOperators(tokens) ==
  \E i \in 1..(Len(tokens) - 1) : tokens[i].type = "op" /\ tokens[i + 1].type = "op"

AdjacentNumbers(tokens) ==
  \E i \in 1..(Len(tokens) - 1) : tokens[i].type = "num" /\ tokens[i + 1].type = "num"

JunkChars == {"a", " ", "="}

\* s with the character c put after its first p characters.
InsertAt(s, p, c) == SubSeq(s, 1, p) \o <<c>> \o SubSeq(s, p + 1, Len(s))

\* C15: putting a junk character at any position of the input, between two
\* digits of a numeral included, leaves the outcome of evaluate unchanged.
C15_JunkIgnored ==
  Evaluated =>
    \A p \in 0..Len(expr) : \A c \in JunkChars :
      evaluate(InsertAt(expr, p, c)) = outcome

NumRunChars == DigitChars \cup {"."}

\* The maximal runs of digits and '.' of s.
NumRuns(s) ==
  {SubSeq(s, k, NumRunEnd(s, k) - 1) :
     k \in {j \in 1..Len(s) : s[j] \in NumRunChars
                               /\ (j = 1 \/ s[j - 1] \notin NumRunChars)}}

\* A run without any digit, or with more than one point.
Malformed(run) ==
  \/ Filter(run, DigitChars) = <<>>
  \/ Len(Filter(run, {"."})) > 1

\* C16: an input with a malformed run of digits and '.' evaluates to
\* NoResult, whatever else it holds.
C16_MalformedLiteral ==
  (Evaluated /\ \E run \in NumRuns(expr) : Malformed(run)) => outcome = NoResult

(***************************************************************************)
(* Claims about the block graph, checked under SpecDiagram                 *)
(***************************************************************************)
\* The results already computed when the block at position p is computed.
Prior(results, p) == SubSeq(results, 1, p - 1)

Operands(b) == {b.left, b.right}

\* C5: an operand '#k' resolves to null when the k-th result is null or
\* ErrorMarker or lies outside the results computed so far, and to a number
\* only when the k-th stored result is a number.
C5_ReferenceResolution ==
  LET results == diagramResults IN
  \A p \in 1..Len(diagramBlocks) : \A text \in Operands(diagramBlocks[p]) :
    IsRef(Trim(text)) /\ RefNumber(Trim(text)) >= 1 =>
      LET k == RefNumber(Trim(text))
          prior == Prior(results, p)
          v == resolveDiagramValue(text, prior)
      IN  /\ (k > p - 1 \/ prior[k] = JsNull \/ prior[k] = ErrorMarker) => v = JsNull
          /\ IsNumber(v) => (k <= p - 1 /\ IsNumber(prior[k]))

\* C6: one result per block, each a number, ErrorMarker or null.
C6_ResultKinds ==
  LET results == diagramResults IN
  /\ Len(results) = Len(diagramBlocks)
  /\ \A i \in 1..Len(results) :
       IsNumber(results[i]) \/ results[i] = ErrorMarker \/ results[i] = JsNull

ForwardRef(text, p, n) ==
  IsRef(Trim(text)) /\ (RefNumber(Trim(text)) >= p \/ RefNumber(Trim(text)) > n)

\* C7: at position p an operand '#k' with k >= p, or with k beyond the
\* list, resolves to null and the block's result is null (shown as '?');
\* the single pass gives one result per block.
C7_ForwardReference ==
  LET results == diagramResults IN
  /\ Len(results) = Len(diagramBlocks)
  /\ \A p \in 1..Len(diagramBlocks) : \A text \in Operands(diagramBlocks[p]) :
       ForwardRef(text, p, Len(diagramBlocks)) =>
         /\ resolveDiagramValue(text, Prior(results, p)) = JsNull
         /\ results[p] = JsNull
         /\ shown[p] = <<"?">>

\* Block 2 of 5 * 20 refers to itself or to block 3.
C7_Witness ==
  /\ Len(diagramBlocks) >= 2
  /\ diagramBlocks[2].left \in {<<"#", "2">>, <<"#", "3">>}
  /\ shown[1] = <<"1", "0", "0">>
  /\ shown[2] = <<"?">>

RefersTo(b, k) ==
  \E text \in Operands(b) : IsRef(Trim(text)) /\ RefNumber(Trim(text)) = k

DividesByZero(b, prior) ==
  /\ EffectiveOp(b.op) = <<"/">>
  /\ resolveDiagramValue(b.right, prior) = JsNum(Q(0))

\* C8: a block with an operand that resolves to null has result null; so
\* has a block that refers to a block whose result is null; and a result
\* is ErrorMarker only when the block itself divides by zero.
C8_NullPropagation ==
  LET results == diagramResults IN
  \A p \in 1..Len(diagramBlocks) :
    LET b == diagramBlocks[p]
        prior == Prior(results, p)
    IN
    /\ (\E text \in Operands(b) : resolveDiagramValue(text, prior) = JsNull)
         => results[p] = JsNull
    /\ (\E k \in 1..Len(diagramBlocks) : RefersTo(b, k) /\ results[k] = JsNull)
         => results[p] = JsNull
    /\ results[p] = ErrorMarker => DividesByZero(b, prior)

\* Block 1 does not parse, block 2 refers to it and block 3 to block 2.
C8_Witness ==
  /\ Len(diagramBlocks) = 3
  /\ diagramBlocks[1].left = <<"x">>
  /\ diagramBlocks[2].left = <<"#", "1">>
  /\ diagramBlocks[3].left = <<"#", "2">>
  /\ shown = <<<<"?">>, <<"?">>, <<"?">>>>

KnownOps == {<<"+">>, <<"-">>, <<"*">>, <<"/">>}

\* The sum of the two operands when both resolve to numbers.
SumOfOperands(b, prior) ==
  JsNum(Round10(QAdd(resolveDiagramValue(b.left, prior).q,
                     resolveDiagramValue(b.right, prior).q)))

BothResolveToNumbers(b, prior) ==
  /\ IsNumber(resolveDiagramValue(b.left, prior))
  /\ IsNumber(resolveDiagramValue(b.right, prior))

\* C9 as claimed: with two operands that resolve to numbers a and b, a
\* blank operator or one that is none of + - * / gives a + b.
C9_UnknownOperatorAdds ==
  LET results == diagramResults IN
  \A p \in 1..Len(diagramBlocks) :
    LET b == diagramBlocks[p]
        prior == Prior(results, p)
    IN  (BothResolveToNumbers(b, prior) /\ b.op \notin KnownOps)
          => results[p] = SumOfOperands(b, prior)

\* C9 as amended: a blank operator counts as '+' (syncBlock stores '+' for
\* it and computeDiagramBlock reads a blank one as '+'), and an operator
\* that is none of + - * / gives null.
C9_BlankAddsUnknownIsNull ==
  LET results == diagramResults IN
  \A p \in 1..Len(diagramBlocks) :
    LET b == diagramBlocks[p]
        prior == Prior(results, p)
    IN
    /\ b.op # <<>>
    /\ b.op \notin KnownOps => results[p] = JsNull
    /\ BothResolveToNumbers(b, prior) =>
         /\ StoredResult(computeDiagramBlock([b EXCEPT !.op = <<>>], prior))
              = SumOfOperands(b, prior)
         /\ b.op = <<"+">> => results[p] = SumOfOperands(b, prior)

\* The operator slot of block 1 (5 * 20) was cleared, or holds '^'.
C9_Witness ==
  /\ Len(diagramBlocks) >= 1
  /\ diagramBlocks[1].left = <<"5">>
  /\ diagramBlocks[1].right = <<"2", "0">>
  /\ \/ diagramBlocks[1].op = <<"+">> /\ edits = 1 /\ shown[1] = <<"2", "5">>
     \/ diagramBlocks[1].op = <<"^">> /\ shown[1] = <<"?">>

Content(b) == <<b.left, b.op, b.right>>

\* C10: the results shown are those of recomputing the current list, '#k'
\* being its k-th block; a list left as the one block {#1, +, 30} shows
\* null.
C10_ShownIsRecomputed ==
  LET results == getDiagramResults(diagramBlocks) IN
  /\ diagramResults = results
  /\ shown = ResultTexts(diagramBlocks, results)
  /\ (Len(diagramBlocks) = 1
        /\ Content(diagramBlocks[1]) = <<<<"#", "1">>, <<"+">>, <<"3", "0">>>>)
       => shown = <<<<"?">>>>

\* The second block of the walkthrough is left alone after removals.
C10_Witness ==
  /\ Len(diagramBlocks) = 1
  /\ diagramBlocks[1].id = 2
  /\ Content(diagramBlocks[1]) = <<<<"#", "1">>, <<"+">>, <<"3", "0">>>>
  /\ edits = 0
  /\ shown = <<<<"?">>>>

Ids(blocks) == [k \in 1..Len(blocks) |-> blocks[k].id]

IdsIncrease(blocks) ==
  \A j \in 1..Len(blocks) : \A k \in 1..Len(blocks) :
    j < k => blocks[j].id < blocks[k].id

\* C18: in every step the ids of the new list increase strictly with the
\* position (so they are pairwise distinct), a block that was not in the
\* list before has an id above every id handed out so far (none is
\* reused), and a slot edit leaves the ids as they were.
C18_BlockIds ==
  [][/\ IdsIncrease(diagramBlocks')
     /\ diagramBlockId' >= diagramBlockId
     /\ \A k \in 1..Len(diagramBlocks') :
          \/ \E j \in 1..Len(diagramBlocks) : diagramBlocks[j].id = diagramBlocks'[k].id
          \/ diagramBlocks'[k].id > diagramBlockId
     /\ edits' # edits => Ids(diagramBlocks') = Ids(diagramBlocks)]_vars

\* Block 2 was removed, a block was added after it and a slot was edited.
C18_Witness ==
  /\ Ids(diagramBlocks) = <<1, 3>>
  /\ edits >= 1

(***************************************************************************)
(* Claims about the keypad calculator, checked under SpecKeypad            *)
(***************************************************************************)
\* C11: when the last key was '=' and the display holds its result (no
\* operation pending, no error marker), a digit key makes the display that
\* digit alone.
C11_DigitAfterResult ==
  [][(lastKey = "=" /\ pendingOp = JsNull /\ display # ErrorText
        /\ lastKey' \in DigitChars)
       => display' = <<lastKey'>>]_vars

\* The value of pendingValue + pendingOp + display in the current state.
PendingResult == evaluate(PendingExpr(Current))

\* C12: with an operation pending whose expression evaluates to a number,
\* '=' makes the display that number and an operator key makes it the
\* pending value with the new operator pending, whatever the display holds.
C12_PendingEvaluated ==
  [][(HasPending(Current) /\ IsNumber(PendingResult))
       => /\ lastKey' = "=" => display' = JsToString(PendingResult)
          /\ lastKey' \in OpChars =>
               /\ pendingValue' = JsStr(JsToString(PendingResult))
               /\ pendingOp' = JsStr(<<lastKey'>>)]_vars

\* C13: a digit key pressed while the display shows the error marker leaves
\* the display holding that digit alone and nothing pending.
C13_DigitAfterError ==
  (prevDisplay = ErrorText /\ lastKey \in DigitChars)
    => /\ display = <<lastKey>>
       /\ displayText = <<lastKey>>
       /\ pendingOp = JsNull
       /\ pendingValue = JsNull

\* '/', '=' (0/0 shows the error marker), then '5'.
C13_Witness ==
  /\ prevDisplay = ErrorText
  /\ lastKey = "5"
  /\ display = <<"5">>

(***************************************************************************)
(* Claims about the sampler, checked under SpecSampler                     *)
(***************************************************************************)
\* The expression with '*' written between a digit and an x next to it.
RECURSIVE ExplicitProducts(_)
ExplicitProducts(s) ==
  IF Len(s) < 2 THEN s
  ELSE IF \/ s[1] \in DigitChars /\ s[2] \in XChars
          \/ s[1] \in XChars /\ s[2] \in DigitChars
    THEN <<s[1], "*">> \o ExplicitProducts(Tail(s))
  ELSE <<s[1]>> \o ExplicitProducts(Tail(s))

\* The value of a term with x bound to v: x itself or a numeral.
TermValue(t, v) == IF Len(t) = 1 /\ t[1] \in XChars THEN v ELSE ParseFloat(t).q

\* product := product (* | /) term | term
RECURSIVE RefProductX(_, _)
RefProductX(s, v) ==
  LET k == LastIndexIn(s, MulDivOps) IN
  IF k = 0 THEN [err |-> FALSE, value |-> TermValue(s, v)]
  ELSE LET l == RefProductX(SubSeq(s, 1, k - 1), v)
           r == TermValue(SubSeq(s, k + 1, Len(s)), v)
       IN  IF l.err \/ (s[k] = "/" /\ QIsZero(r)) THEN [err |-> TRUE, value |-> Q(0)]
           ELSE [err |-> FALSE,
                 value |-> IF s[k] = "*" THEN QMul(l.value, r) ELSE QDiv(l.value, r)]

\* sum := sum (+ | -) product | product
RECURSIVE RefSumX(_, _)
RefSumX(s, v) ==
  LET k == LastIndexIn(s, AddSubOps) IN
  IF k = 0 THEN RefProductX(s, v)
  ELSE LET l == RefSumX(SubSeq(s, 1, k - 1), v)
           r == RefProductX(SubSeq(s, k + 1, Len(s)), v)
       IN  IF l.err \/ r.err THEN [err |-> TRUE, value |-> Q(0)]
           ELSE [err |-> FALSE,
                 value |-> IF s[k] = "+" THEN QAdd(l.value, r.value)
                           ELSE QSub(l.value, r.value)]

\* C14: for every expression and sample value v, evaluateWithX returns the
\* value of the expression with x bound to v (as it is, or rounded to ten
\* places), a digit next to x multiplying it, and null where the value is
\* a division by zero.
C14_SubstitutedValue ==
  graphY # Pending =>
    LET ref == RefSumX(ExplicitProducts(graphExpr), graphX)
    IN  IF ref.err THEN graphY = JsNull
        ELSE graphY \in {JsNum(ref.value), JsNum(Round10(ref.value))}

(***************************************************************************)
(* Claims about the notepad, checked under SpecNotes                       *)
(***************************************************************************)
HasEq(line) == Filter(line, {"="}) # <<>>

\* What evaluate returns for the text before '=' of a line, filtered to the
\* arithmetic alphabet as the notepad hands it over.
LineOutcome(line) == evaluate(Filter(Trim(BeforeEq(line)), ArithChars))

\* The rendering the claim gives a line that contains '='.
ClaimedWithEq(line) ==
  IF LineOutcome(line) = NoResult THEN line
  ELSE IF LineOutcome(line) = ErrorMarker THEN line \o ArrowText \o BracketedError
  ELSE line \o ArrowText \o NumberToString(LineOutcome(line).q)

InputLines == SplitLines(notepadInput)
OutputLines == SplitLines(notepadOutput)

StepAdvances ==
  /\ (frame.pc = "tokenize" /\ frame'.pc = "tokenize") => frame'.i > frame.i
  /\ (frame.pc = "reduce" /\ frame'.pc = "reduce" /\ frame'.pass = frame.pass) =>
       /\ Len(frame'.ops) = Len(frame.ops) - 1
       /\ Len(frame'.nums) = Len(frame.nums) - 1

\* The value returned is a Number, ErrorMarker or NoResult; after the two
\* passes a single operand and no operator are left.
ReturnsOutcome ==
  /\ frame.pc # "thrown"
  /\ frame.pc = "done" =>
       /\ IsNumber(frame.ret) \/ frame.ret = ErrorMarker \/ frame.ret = NoResult
       /\ (frame.nums # <<>> /\ frame.ret # ErrorMarker) =>
            Len(frame.nums) = 1 /\ frame.ops = <<>>

\* C20: a call of evaluate returns on every input, with a Number,
\* ErrorMarker or NoResult and without throwing; every iteration of the
\* tokenizer advances and every iteration of a reduction pass removes one
\* operator and one operand, a single operand being left at the end.
C20_Terminates ==
  /\ [][StepAdvances]_vars
  /\ []ReturnsOutcome
  /\ (frame.pc = "tokenize") ~> (frame.pc = "done")

\* 5-0/8%: the division is reduced first, then the subtraction.
C20_Witness ==
  /\ frame.pc = "done"
  /\ frame.str = <<"5", "-", "0", "/", "8", "%">>
  /\ frame.ret = JsNum(Q(5))
  /\ Len(frame.nums) = 1

(***************************************************************************)
(* Claims about the order of computation, checked under SpecDiagram        *)
(***************************************************************************)
\* The blocks at positions 1..i are the same before and after the step.
SamePrefix(i) ==
  /\ i <= Len(diagramBlocks)
  /\ i <= Len(diagramBlocks')
  /\ SubSeq(diagramBlocks', 1, i) = SubSeq(diagramBlocks, 1, i)

\* C23: the result at position i is computed from the blocks 1..i alone: a
\* step that edits, appends or removes blocks after position i only leaves
\* the result at position i as it was.
C23_PrefixDecides ==
  [][\A i \in 1..Len(diagramResults) :
       SamePrefix(i) => diagramResults'[i] = diagramResults[i]]_vars

\* The third block was edited, the first still holds 5 * 20.
C23_Witness ==
  /\ Len(diagramBlocks) = 3
  /\ edits >= 1
  /\ diagramBlocks[3].left = <<"0">>
  /\ diagramBlocks[1].left = <<"5">>
  /\ diagramResults[1] = JsNum(Q(100))

(***************************************************************************)
(* Claims about the shape of the token stream, checked under SpecEval      *)
(***************************************************************************)
\* number, operator, number, ..., number
Alternates(tokens) ==
  /\ Len(tokens) % 2 = 1
  /\ \A i \in 1..Len(tokens) :
       tokens[i].type = (IF i % 2 = 1 THEN "num" ELSE "op")

\* C29: evaluate returns a Number or ErrorMarker only for a token stream
\* that strictly alternates number, operator, ..., number; tokens with the
\* right counts in the wrong order give NoResult.
C29_AlternationRequired ==
  (outcome # Pending /\ (IsNumber(outcome) \/ outcome = ErrorMarker)) =>
    Alternates(tokenize(expr).tokens)

(***************************************************************************)
(* Claims about pending operations and the display buffer of the keypad    *)
(***************************************************************************)
\* The display holds a number (not the error marker).
HoldsNumber(d) == d # ErrorText /\ ParseFloat(d).t = "num"

\* The display shows the error marker or a number as String writes it.
ShowsResult(d) ==
  \/ d = ErrorText
  \/ ParseFloat(d).t = "num" /\ NumberToString(ParseFloat(d).q) = d

\* C25: with an operation pending and a number in the display, '=' clears
\* the pending operator and value and leaves the result or the error marker
\* in the display, also when the pending value is negative.
C25_EqualsCompletes ==
  [][(lastKey' = "=" /\ HasPending(Current) /\ HoldsNumber(display))
       => /\ pendingOp' = JsNull
          /\ pendingValue' = JsNull
          /\ ShowsResult(display')]_vars

\* C26: an operator key pressed directly after an operator key replaces the
\* pending operator and leaves the pending value as it was.
C26_SecondOperatorReplaces ==
  [][(lastKey \in OpChars /\ lastKey' \in OpChars)
       => /\ pendingOp' = JsStr(<<lastKey'>>)
          /\ pendingValue' = pendingValue]_vars

\* C27: the display buffer holds at most MAX_DISPLAY_LEN characters and is
\* the text of the display element.
C27_DisplayFitsAndShown ==
  /\ Len(display) <= MAX_DISPLAY_LEN
  /\ display = displayText

\* C28: the pending operator is null exactly when the pending value is
\* null, and 'C' leaves the initial state: display and display element '0',
\* nothing pending.
C28_PendingPairAndClear ==
  /\ (pendingOp = JsNull) <=> (pendingValue = JsNull)
  /\ lastKey = "C" =>
       /\ display = <<"0">>
       /\ displayText = <<"0">>
       /\ pendingOp = JsNull
       /\ pendingValue = JsNull

\* '+', '5', 'C': 'C' was pressed with '+' pending and 5 in the display.
C28_Witness ==
  /\ lastKey = "C"
  /\ prevDisplay = <<"5">>
  /\ keys = 3
  /\ display = <<"0">>


\* ---------------------------------------------------------------------
\* The chat widget (ai-widget.js; chatbot/widget/script.js is the same code
\* under other class names)
\* ---------------------------------------------------------------------

MaxSends == 3

\* What the user may have typed into the input
ChatTexts == {<<>>, <<" ">>, <<"h", "i">>, <<" ", "y", " ">>}

\* The replies of the server: data.reply (short enough to be shown at once,
\* line 208) and data.suggested
Replies == {<<>>, <<"o", "k">>}
SuggestedLists == {<<>>, <<<<"q">>, <<>>>>}

NoResponse == <<"N", "o", " ", "r", "e", "s", "p", "o", "n", "s", "e", ".">>
CantReach == <<"C", "a", "n", "'", "t", " ", "r", "e", "a", "c", "h">>
ThinkingDots == <<".", ".", ".">>

\* ai-widget.js:125-136
appendMessage(list, text, type) ==
  Append(list, [type |-> type, text |-> text, chips |-> {}, replaced |-> 0])

\* ai-widget.js:138-150
appendThinking(list) == appendMessage(list, ThinkingDots, "thinking")

\* ai-widget.js:178-199: one chip per non-empty string of the list
appendSuggestedToMessage(msg, suggested) ==
  [msg EXCEPT !.chips = {suggested[i] : i \in {j \in DOMAIN suggested : suggested[j] # <<>>}}]

\* ai-widget.js:201-222
replaceThinkingWithReply(msg, text, isError, suggested) ==
  appendSuggestedToMessage(
    [msg EXCEPT !.type = IF isError THEN "error" ELSE "bot",
                !.text = text,
                !.replaced = @ + 1],
    suggested)

\* ai-widget.js:228-237: sendMessage with value in the input, up to the fetch
sendMessage(value) ==
  LET text == Trim(value) IN
  IF text = <<>>
  THEN /\ inputValue' = value
       /\ UNCHANGED <<sendDisabled, messages, inFlight, sends>>
  ELSE /\ sends < MaxSends
       /\ inputValue' = <<>>
       /\ messages' = appendThinking(appendMessage(messages, text, "user"))
       /\ sendDisabled' = TRUE
       /\ inFlight' = inFlight \cup {Len(messages) + 2}
       /\ sends' = sends + 1

\* The user edits the input
TypeText ==
  /\ \E t \in ChatTexts : inputValue' = t
  /\ UNCHANGED <<sendDisabled, messages, inFlight, sends>>
  /\ UNCHANGED <<evalVars, diagramVars, calcVars, graphVars, noteVars, frame, authVars, dataVars>>

\* ai-widget.js:260: a disabled button delivers no click
ClickSend ==
  /\ ~sendDisabled
  /\ sendMessage(inputValue)
  /\ UNCHANGED <<evalVars, diagramVars, calcVars, graphVars, noteVars, frame, authVars, dataVars>>

\* ai-widget.js:261-266: Enter without Shift in the input
PressEnter ==
  /\ sendMessage(inputValue)
  /\ UNCHANGED <<evalVars, diagramVars, calcVars, graphVars, noteVars, frame, authVars, dataVars>>

\* ai-widget.js:189-195: a click on a suggested question
ClickChip ==
  /\ \E i \in DOMAIN messages : \E t \in messages[i].chips : sendMessage(t)
  /\ UNCHANGED <<evalVars, diagramVars, calcVars, graphVars, noteVars, frame, authVars, dataVars>>

\* ai-widget.js:245-257: the fetch of thinking element i settles; then or
\* catch replaces the element and finally enables the button, in one turn
Respond ==
  /\ \E i \in inFlight :
       /\ \/ \E reply \in Replies : \E suggested \in SuggestedLists :
               messages' = [messages EXCEPT ![i] =
                 replaceThinkingWithReply(@, IF reply = <<>> THEN NoResponse ELSE reply,
                                          FALSE, suggested)]
          \/ messages' = [messages EXCEPT ![i] =
                 replaceThinkingWithReply(@, CantReach, TRUE, <<>>)]
       /\ inFlight' = inFlight \ {i}
  /\ sendDisabled' = FALSE
  /\ UNCHANGED <<inputValue, sends>>
  /\ UNCHANGED <<evalVars, diagramVars, calcVars, graphVars, noteVars, frame, authVars, dataVars>>

InitWidget ==
  /\ InitPage
  /\ expr = <<>>
  /\ outcome = Pending
  /\ InitDiagram
  /\ InitCalc
  /\ InitGraph
  /\ InitNotepad
  /\ InitFrame

NextChat ==
  \/ TypeText
  \/ ClickSend
  \/ PressEnter
  \/ ClickChip
  \/ Respond

SpecChat == InitWidget /\ [][NextChat]_vars

\* C30: the send button is disabled exactly while a request is in flight,
\* and at most one request is in flight at any time.
C30_ButtonTracksOneRequest ==
  /\ sendDisabled <=> inFlight # {}
  /\ Cardinality(inFlight) <= 1


\* ---------------------------------------------------------------------
\* The account system (unnamed/part_002, the same code as app.js:3316-3555)
\* ---------------------------------------------------------------------

MaxAuthCalls == 3
MinPasswordLen == 6

\* part_002:4
SALT ==
  <<"s", "c", "h", "o", "o", "l", "-", "r", "e", "s", "o", "u", "r", "c", "e",
    "-", "v", "1">>

\* String.prototype.toLowerCase on the letters the inputs are made of
toLowerCase(s) ==
  [i \in DOMAIN s |->
     CASE s[i] = "A" -> "a"
       [] s[i] = "B" -> "b"
       [] OTHER -> s[i]]

\* part_002:17-23: the SHA-256 digest of SALT + email.toLowerCase() + password,
\* named by the text it is the digest of (two texts, two digests)
hashPassword(password, email) == [sha256 |-> SALT \o toLowerCase(email) \o password]

\* What the forms may hand over (app.js:154, app.js:176)
Emails == {<<>>, <<"a">>, <<" ", "A">>, <<"b">>}
Passwords ==
  {<<>>,
   <<"p", "p", "p", "p", "p">>,
   <<"p", "p", "p", "p", "p", "p">>,
   <<"q", "q", "q", "q", "q", "q">>}

\* part_002:69 and part_002:94
NormalEmail(email) == toLowerCase(Trim(email))

\* users[em] = u on a parsed users object
PutUser(all, em, u) == [e \in DOMAIN all \cup {em} |-> IF e = em THEN u ELSE all[e]]

\* return { error } or return { data } of a call of op
Return(op, email, password, result) ==
  authReturn' = [op |-> op, email |-> email, password |-> password,
                 result |-> result, n |-> authReturn.n + 1]

\* A call that has reached its await: its arguments and the users object it
\* read before
Waiting(op, em, pw, email, password) ==
  [id |-> authCount + 1, op |-> op, em |-> em, pw |-> pw, email |-> email,
   password |-> password, users |-> users]

\* part_002:68-78: signUp up to the await of hashPassword
signUp(email, password) ==
  /\ authCount < MaxAuthCalls
  /\ authCount' = authCount + 1
  /\ LET em == NormalEmail(email)
         pw == password
     IN  IF em = <<>> \/ pw = <<>> \/ Len(pw) < MinPasswordLen
         THEN /\ Return("signUp", email, password, "error")
              /\ UNCHANGED <<users, session, authCalls>>
         ELSE IF em \in DOMAIN users
         THEN /\ Return("signUp", email, password, "error")
              /\ UNCHANGED <<users, session, authCalls>>
         ELSE /\ authCalls' = authCalls \cup {Waiting("signUp", em, pw, email, password)}
              /\ UNCHANGED <<users, session, authReturn>>

\* part_002:78-90: signUp from the await on
signUpResume(c) ==
  /\ c.op = "signUp"
  /\ users' = PutUser(c.users, c.em, [passwordHash |-> hashPassword(c.pw, c.em)])
  /\ session' = c.em
  /\ Return("signUp", c.email, c.password, "data")
  /\ authCalls' = authCalls \ {c}
  /\ UNCHANGED authCount

\* part_002:93-104: signIn up to the await of hashPassword
signIn(email, password) ==
  /\ authCount < MaxAuthCalls
  /\ authCount' = authCount + 1
  /\ LET em == NormalEmail(email)
         pw == password
     IN  IF em = <<>> \/ pw = <<>>
         THEN /\ Return("signIn", email, password, "error")
              /\ UNCHANGED <<users, session, authCalls>>
         ELSE IF em \notin DOMAIN users
         THEN /\ Return("signIn", email, password, "error")
              /\ UNCHANGED <<users, session, authCalls>>
         ELSE /\ authCalls' = authCalls \cup {Waiting("signIn", em, pw, email, password)}
              /\ UNCHANGED <<users, session, authReturn>>

\* part_002:104-119: signIn from the await on
signInResume(c) ==
  /\ c.op = "signIn"
  /\ IF hashPassword(c.pw, c.em) # c.users[c.em].passwordHash
     THEN /\ Return("signIn", c.email, c.password, "error")
          /\ UNCHANGED <<users, session>>
     ELSE /\ users' = c.users
          /\ session' = c.em
          /\ Return("signIn", c.email, c.password, "data")
  /\ authCalls' = authCalls \ {c}
  /\ UNCHANGED authCount

\* part_002:122-124
signOut ==
  /\ session' = <<>>
  /\ UNCHANGED <<users, authCalls, authReturn, authCount>>

OtherThanAuth ==
  <<evalVars, diagramVars, calcVars, graphVars, noteVars, frame, chatVars, dataVars>>

\* app.js:176: the sign-up form is submitted
SubmitSignUp ==
  /\ \E email \in Emails : \E password \in Passwords : signUp(email, password)
  /\ UNCHANGED OtherThanAuth

\* app.js:154: the sign-in form is submitted
SubmitSignIn ==
  /\ \E email \in Emails : \E password \in Passwords : signIn(email, password)
  /\ UNCHANGED OtherThanAuth

\* The digest a call waits for arrives
HashResolves ==
  /\ \E c \in authCalls : signUpResume(c) \/ signInResume(c)
  /\ UNCHANGED OtherThanAuth

\* app.js:207-214: the sign-out button
ClickSignOut ==
  /\ session # <<>>
  /\ signOut
  /\ UNCHANGED OtherThanAuth

NextAuth ==
  \/ SubmitSignUp
  \/ SubmitSignIn
  \/ HashResolves
  \/ ClickSignOut

SpecAuth == InitWidget /\ [][NextAuth]_vars

\* A signUp or signIn returns in this step
Returns == authReturn'.n # authReturn.n

\* C22: a session is established only by a signUp whose email has no
\* account and whose password has at least 6 characters, or by a signIn
\* with the password stored for the account; a signUp or signIn that fails
\* returns an error and leaves the stored users and the session as they were.
C22_SessionOnlyByValidCall ==
  [][/\ Returns =>
          LET r == authReturn'
              em == NormalEmail(r.email)
          IN  IF r.result = "data"
              THEN /\ session' = em
                   /\ \/ /\ r.op = "signUp"
                         /\ em \notin DOMAIN users
                         /\ Len(r.password) >= MinPasswordLen
                      \/ /\ r.op = "signIn"
                         /\ em \in DOMAIN users
                         /\ users[em].passwordHash = hashPassword(r.password, em)
              ELSE /\ r.result = "error"
                   /\ users' = users
                   /\ session' = session
     /\ (session' # session /\ session' # <<>>) => (Returns /\ authReturn'.result = "data")
    ]_vars


\* ---------------------------------------------------------------------
\* The data service (data-service.js; unnamed/part_000 is the same code)
\* ---------------------------------------------------------------------

MaxDataCalls == 3

\* data-service.js:3-4
CONTENT_PREFIX ==
  <<"s", "c", "h", "o", "o", "l", "-", "r", "e", "s", "o", "u", "r", "c", "e",
    "-", "c", "o", "n", "t", "e", "n", "t", "-">>
GUEST_PREFIX ==
  <<"s", "c", "h", "o", "o", "l", "-", "r", "e", "s", "o", "u", "r", "c", "e",
    "-", "g", "u", "e", "s", "t", "-">>

\* data-service.js:14-16; a null uid is <<>>
contentKey(key, uid) ==
  IF uid # <<>> THEN CONTENT_PREFIX \o uid \o <<"-">> \o key ELSE GUEST_PREFIX \o key

\* data-service.js:7-12 with part_002:126-143: the id of the session's user,
\* null when there is no session or its user has no account
getUserId == IF session # <<>> /\ session \in DOMAIN users THEN session ELSE <<>>

\* The texts of the notepad that are saved (app.js:546)
ContentTexts == {<<"x">>, <<"y">>}

\* JSON.stringify({ text: text }) for a text of letters
JSONStringify(text) ==
  <<"{", "\"", "t", "e", "x", "t", "\"", ":", "\"">> \o text \o <<"\"", "}">>

\* localStorage.setItem(k, item)
SetItem(items, k, item) == [x \in DOMAIN items \cup {k} |-> IF x = k THEN item ELSE items[x]]

\* data-service.js:67-73: the session is read when the call begins (the
\* awaits of lines 10 and 68 wait for nothing); part_002:131-133 removes a
\* session whose user has no account. owner is the user who was signed in
\* when the content was handed over, timer the timer that made the call.
saveContent(key, text, owner, timer) ==
  LET uid == getUserId
      k == contentKey(key, uid)
  IN  /\ storage' = SetItem(storage, k, JSONStringify(text))
      /\ session' = uid
      /\ lastSave' = [key |-> key, value |-> text, owner |-> owner, k |-> k,
                      timer |-> timer]

\* clearTimeout(id)
clearTimeout(set, id) == {t \in set : t.id # id}

\* The calls of a key since one of its timers last fired, after one more
NextBurst(key, text) ==
  [calls |-> IF debounceTimers[key] # 0 THEN burst[key].calls + 1 ELSE 1,
   last |-> text,
   saved |-> <<>>]

\* data-service.js:75-82 without line 77
debouncedSaveContentKeepTimer(key, text) ==
  /\ dataCalls < MaxDataCalls
  /\ dataCalls' = dataCalls + 1
  /\ timerId' = timerId + 1
  /\ timers' = timers
                 \cup {[id |-> timerId + 1, key |-> key, value |-> text, owner |-> getUserId]}
  /\ debounceTimers' = [debounceTimers EXCEPT ![key] = timerId + 1]
  /\ burst' = [burst EXCEPT ![key] = NextBurst(key, text)]
  /\ UNCHANGED <<storage, lastSave>>

\* data-service.js:75-82
debouncedSaveContent(key, text) ==
  /\ dataCalls < MaxDataCalls
  /\ dataCalls' = dataCalls + 1
  /\ timerId' = timerId + 1
  /\ timers' = (IF debounceTimers[key] # 0
                THEN clearTimeout(timers, debounceTimers[key])
                ELSE timers)
                 \cup {[id |-> timerId + 1, key |-> key, value |-> text, owner |-> getUserId]}
  /\ debounceTimers' = [debounceTimers EXCEPT ![key] = timerId + 1]
  /\ burst' = [burst EXCEPT ![key] = NextBurst(key, text)]
  /\ UNCHANGED <<storage, lastSave>>

OtherThanData ==
  <<evalVars, diagramVars, calcVars, graphVars, noteVars, frame, chatVars>>

\* app.js:542-547: the notepad changes, and so for the other content
SaveDebounced ==
  /\ \E key \in ContentKeys : \E text \in ContentTexts : debouncedSaveContent(key, text)
  /\ UNCHANGED <<users, session, authCalls, authReturn, authCount>>
  /\ UNCHANGED OtherThanData

\* app.js:2916: content saved at once
SaveDirect ==
  /\ dataCalls < MaxDataCalls
  /\ dataCalls' = dataCalls + 1
  /\ \E key \in ContentKeys : \E text \in ContentTexts :
       saveContent(key, text, getUserId, 0)
  /\ UNCHANGED <<debounceTimers, timers, timerId, burst>>
  /\ UNCHANGED <<users, authCalls, authReturn, authCount>>
  /\ UNCHANGED OtherThanData

\* data-service.js:78-81: the delay of a timer has passed
TimerFires ==
  /\ \E t \in timers :
       /\ timers' = timers \ {t}
       /\ debounceTimers' = [debounceTimers EXCEPT ![t.key] = 0]
       /\ saveContent(t.key, t.value, t.owner, t.id)
       /\ burst' = [burst EXCEPT ![t.key].saved = Append(@, t.value)]
  /\ UNCHANGED <<timerId, dataCalls>>
  /\ UNCHANGED <<users, authCalls, authReturn, authCount>>
  /\ UNCHANGED OtherThanData

\* The accounts created before
Accounts ==
  {[email |-> <<"a">>, password |-> <<"p", "p", "p", "p", "p", "p">>],
   [email |-> <<"b">>, password |-> <<"q", "q", "q", "q", "q", "q">>]}

\* The page of a browser on which the accounts were created and nobody is
\* signed in
InitAccounts ==
  /\ users = [em \in {acc.email : acc \in Accounts} |->
                [passwordHash |->
                   hashPassword((CHOOSE acc \in Accounts : acc.email = em).password, em)]]
  /\ session = <<>>
  /\ authCalls = {}
  /\ authReturn = NoReturn
  /\ authCount = 0
  /\ InitChat
  /\ InitData
  /\ expr = <<>>
  /\ outcome = Pending
  /\ InitDiagram
  /\ InitCalc
  /\ InitGraph
  /\ InitNotepad
  /\ InitFrame

MaxSignIns == 1

\* app.js:154: the owner of an account signs in
SignInAccount ==
  /\ authCount < MaxSignIns
  /\ \E acc \in Accounts : signIn(acc.email, acc.password)
  /\ UNCHANGED OtherThanAuth

\* The digest a signIn waits for arrives
SignInResolves ==
  /\ \E c \in authCalls : signInResume(c)
  /\ UNCHANGED OtherThanAuth

NextData ==
  \/ SaveDebounced
  \/ SaveDirect
  \/ TimerFires
  \/ SignInAccount
  \/ SignInResolves
  \/ ClickSignOut

SpecData == InitAccounts /\ [][NextData]_vars

\* The data service alone, nobody signing in or out
NextDebounce ==
  \/ SaveDebounced
  \/ SaveDirect
  \/ TimerFires

\* A timer that is set fires once its delay has passed
SpecDebounce == InitAccounts /\ [][NextDebounce]_vars /\ WF_vars(TimerFires)

\* C21: content handed to the data service while user U was signed in is
\* written only under U's key, content handed over by a guest only under the
\* guest key.
C21_WrittenUnderOwnersKey ==
  lastSave # NoSave => lastSave.k = contentKey(lastSave.key, lastSave.owner)

\* The timers of a key that are set
TimersOf(set, key) == {t \in set : t.key = key}

\* Each key has at most one timer set, the one debounceTimers names, and it
\* carries the value of the key's last call
OneTimerPerKey ==
  \A key \in ContentKeys :
    /\ Cardinality(TimersOf(timers, key)) <= 1
    /\ \A t \in TimersOf(timers, key) :
         t.id = debounceTimers[key] /\ t.value = burst[key].last
    /\ debounceTimers[key] # 0 => TimersOf(timers, key) # {}

\* Once the timer of a burst has fired, exactly one save was made for the
\* key since the last call, with the value of that call; before, none
OneSavePerBurst ==
  \A key \in ContentKeys :
    burst[key].calls > 0 =>
      burst[key].saved = IF debounceTimers[key] # 0 THEN <<>> ELSE <<burst[key].last>>

\* A call for a key cancels the key's timer and no timer of another key; a
\* timer that fires stores the value of the key's last call
CancelsOwnKeyOnly ==
  /\ timerId' # timerId =>
       \E key \in ContentKeys :
         /\ TimersOf(timers, key) \cap timers' = {}
         /\ TimersOf(timers', key) # {}
         /\ \A other \in ContentKeys \ {key} :
              /\ TimersOf(timers', other) = TimersOf(timers, other)
              /\ debounceTimers'[other] = debounceTimers[other]
  /\ (lastSave' # lastSave /\ lastSave'.timer # 0) =>
       /\ storage'[lastSave'.k] = JSONStringify(burst[lastSave'.key].last)
       /\ burst[lastSave'.key].saved = <<>>

\* C24: debouncedSaveContent coalesces the writes of a key: at most one
\* timer is set per key, a new call cancels the key's timer and only that
\* one, and a burst of calls ends in exactly one save, of the last value.
C24_CoalescesPerKey ==
  /\ []OneTimerPerKey
  /\ []OneSavePerBurst
  /\ [][CancelsOwnKeyOnly]_vars
  /\ \A key \in ContentKeys : (debounceTimers[key] # 0) ~> (debounceTimers[key] = 0)

\* A burst of two calls for one key has ended in one save while the timer
\* of the other key is still set
C24_Witness ==
  \E key \in ContentKeys :
    /\ burst[key].calls >= 2
    /\ burst[key].saved = <<burst[key].last>>
    /\ debounceTimers[key] = 0
    /\ \E other \in ContentKeys \ {key} : debounceTimers[other] # 0

====
